---------------------------- MODULE Spec2Model ----------------------------
(***************************************************************************)
(* A model of the generative-agent town simulator: the tile maze and its   *)
(* breadth-first pathfinder, the associative memory store, the daily       *)
(* schedule, the agent's think step and the simulation server's tick loop  *)
(* with checkpoint and resume.                                             *)
(*                                                                         *)
(* Each subsystem has its own specification (SpecMaze, SpecAssoc, ...)     *)
(* over its own variables; the variables of the other subsystems are held  *)
(* at their initial values.                                                *)
(***************************************************************************)
EXTENDS Integers, Sequences, FiniteSets, TLC

VARIABLES
    \* ---- Maze.find_path (modules/maze.py) ----
    collision,      \* set of coordinates whose tile has collision = True
    src_coord,      \* argument src_coord of find_path
    dst_coord,      \* argument dst_coord of find_path
    path_result,    \* outcome of the call: [outcome, path]; outcome "none" before it
    \* ---- simulated clock (utils timer) ----
    now,            \* current simulated time, in minutes
    forwards,       \* how many times the clock has been advanced
    \* ---- Associate / LlamaIndex (modules/memory/associate.py, storage/index.py) ----
    docs,           \* the index docstore: set of nodes [id, node_type, create, expire, given]
    max_nodes,      \* LlamaIndex._config["max_nodes"], the id counter
    memory,         \* Associate.memory: node_type -> list of node ids
    max_memory,     \* Associate.max_memory (-1: unlimited)
    persisted,      \* what index.save() last wrote: [docs, max_nodes]
    added,          \* history: node_type -> ids add_node returned since construction, newest first
    concept,        \* what the last Agent._add_concept call returned: [called, inserted, returned, prefix]
    \* ---- Schedule (modules/memory/schedule.py) and Agent.make_schedule ----
    daily_schedule, \* Schedule.daily_schedule: list of plans [describe, start, duration, decompose]
    schedule_create,\* Schedule.create as a day number (-1: None)
    plan_result,    \* what the last make_schedule returned: [plan, de_plan] indexes (0: none yet)
    \* ---- the town: Maze tiles and Agents (modules/maze.py, modules/agent.py) ----
    tiles,          \* coordinate -> Tile._events as the list of its events, in dict order
    agents,         \* Game.agents: name -> [name, coord, path, action, scheduled, has_memory]
    llm_available,  \* Agent.llm_available(): is there a usable language model?
    sleep_known,    \* do the agents' spatial shortcuts contain a sleep address?
    \* ---- SimulateServer and the checkpoint folder (start.py) ----
    agent_status,   \* SimulateServer.agent_status: name -> [coord, path]
    config,         \* SimulateServer.config: [stride, time, step, agents]
    files,          \* checkpoint folder: time in the file name -> [time, step] it records
    latest,         \* content of the checkpoint file written last
    start_step,     \* SimulateServer.start_step
    end_step,       \* start_step + step of this simulate() call
    stride,         \* the stride argument of this simulate() call
    step_i,         \* the loop variable i of simulate()
    think_idx,      \* position in agent_status of the agent that thinks next
    pc,             \* where the server process is
    resumed,        \* history: was the simulation resumed from a checkpoint?
    strides_used,   \* history: the stride arguments of all invocations so far
    thinkers,       \* history: [name, time] of the thinks of the current tick
    log,            \* history: one entry per checkpoint written
    \* ---- LLMModel (modules/model/llm_model.py) ----
    completion,     \* the completion() call in progress or just ended: [pc, caller, retry, tries, response, stale, unparsed]
    summary,        \* LLMModel._summary: tag -> <<requests, successes, failures>>
    calls,          \* history: caller tag -> <<calls begun, calls ended, sum of their retry arguments>>
    returned,       \* what the last completion() call returned
    \* ---- the chat protocol between agents (modules/agent.py) ----
    people,         \* Game.agents: name -> [schedule, action, shown, path, chats, memory, poignancy, concepts]
    conversation,   \* Game.conversation: the entries [key, initiator, partner, address, chats], in insertion order
    chat_started,   \* history: one entry per chat, the state _chat_with saw when it started
    chat_turn,      \* [idx, step]: the agent that thinks next in this tick, and its next step
    \* ---- Agent.reflect (modules/agent.py) ----
    percept_sum,      \* history: sum of the poignancy of the new non-idle events perceived since the last reflection
    \* ---- Agent._execute_special_action (modules/agent.py) ----
    special_action, \* Agent.action of the agent at the terminals
    last_time,      \* activity kind -> last_<kind>_time (-1: None)
    records,        \* history: the entries recorded, [kind, tick, stamp], oldest first
    ticked,         \* history: [time, kind] of the last think; kind is "none" when the tick did not qualify
    \* ---- compress.generate_movement (compress.py) ----
    all_movement,   \* the frame keys of all_movement: key -> agent -> movement coordinate (NoCoord: no entry)
    last_location,  \* last_location: agent -> movement of the last frame written (NoCoord: none)
    gen,            \* [step, idx, pc]: the checkpoint file and agent processed next, and how the run stands
    walked,         \* history: [step, name, path] of every path spread over frames
    \* ---- Action and its serialisation (modules/memory/action.py) ----
    carried,        \* the Action an agent carries (NoAction: none yet)
    action_dict,    \* Action.to_dict() of the carried action as written to the checkpoint (NoDict: none)
    loaded          \* Action.from_dict of action_dict (NoAction: not read back)

mazeVars == <<collision, src_coord, dst_coord, path_result>>

assocVars == <<docs, max_nodes, memory, max_memory, persisted, added, concept>>

schedVars == <<daily_schedule, schedule_create, plan_result>>

townVars == <<tiles, agents, llm_available, sleep_known>>

serverVars == <<agent_status, config, files, latest, start_step, end_step, stride,
                step_i, think_idx, pc, resumed, strides_used, thinkers, log>>

clockVars == <<now, forwards>>

llmVars == <<completion, summary, calls, returned>>

chatVars == <<people, conversation, chat_started, chat_turn>>

reflectVars == <<percept_sum>>

specialVars == <<special_action, last_time, records, ticked>>

movementVars == <<all_movement, last_location, gen, walked>>

actionVars == <<carried, action_dict, loaded>>

vars == <<mazeVars, clockVars, assocVars, schedVars, townVars, serverVars, llmVars, chatVars,
    reflectVars, specialVars, movementVars, actionVars>>

\* What the actions of each subsystem leave alone.
outsideMaze == <<clockVars, assocVars, schedVars, townVars, serverVars, llmVars, chatVars,
    reflectVars, specialVars, movementVars, actionVars>>

outsideAssoc == <<mazeVars, schedVars, townVars, serverVars, llmVars, chatVars,
    reflectVars, specialVars, movementVars, actionVars>>

outsideSched == <<mazeVars, townVars, serverVars, llmVars, chatVars, reflectVars,
    specialVars, movementVars, actionVars>>

outsideSim == <<mazeVars, assocVars, schedVars, llmVars, chatVars, reflectVars,
    specialVars, movementVars, actionVars>>

outsideChat == <<mazeVars, assocVars, schedVars, townVars, serverVars, llmVars,
    reflectVars, specialVars, movementVars, actionVars>>

outsideReflect == <<mazeVars, assocVars, schedVars, townVars, serverVars, llmVars,
    specialVars, movementVars, actionVars>>

outsideSpecial == <<mazeVars, assocVars, schedVars, townVars, serverVars, llmVars, chatVars,
    reflectVars, movementVars, actionVars>>

outsideMovement == <<assocVars, schedVars, townVars, serverVars, llmVars, chatVars,
    reflectVars, specialVars, mazeVars, actionVars>>

outsideAction == <<mazeVars, assocVars, schedVars, townVars, serverVars, llmVars, chatVars,
    reflectVars, specialVars, movementVars>>

outsideLLM == <<mazeVars, clockVars, assocVars, schedVars, townVars, serverVars, chatVars,
    reflectVars, specialVars, movementVars, actionVars>>

-----------------------------------------------------------------------------
(***************************************************************************)
(* Bounds of the model.                                                    *)
(***************************************************************************)
MazeWidth == 4          \* maze_width of the modelled grids
MazeHeight == 4         \* maze_height of the modelled grids
MaxCollision == 2       \* at most this many collision tiles in a modelled grid  
MaxNodeId == 3          \* add_node is called while max_nodes is below this
MaxMemoryChoice == 2    \* max_memory is drawn from {-1} \cup 1..MaxMemoryChoice
MaxForward == 1         \* the store's clock is advanced at most this many times
MaxGiven == 1           \* stored nodes added with an explicit create time
MaxCalls == 2           \* completion() calls of one language model
MaxChatTicks == 3       \* ticks of the chat protocol
ChatIter == 2           \* chat_iter of the agents' configuration
MaxReflectTicks == 5    \* ticks of the percept and reflect cycle
MaxSpecialForward == 3  \* the clock of the terminals is advanced at most this many times
MaxCheckpoints == 3      \* checkpoint files read by generate_movement
FramesPerStep == 2       \* frames_per_step (60 in compress.py), scaled to the modelled paths
MaxActionForward == 2    \* the clock of the actions is advanced at most this many times
MaxCrowdTicks == 2       \* ticks of a chat run with three agents
PoignancyMax == 4       \* think_config["poignancy_max"] of the modelled agent
MaxSchedForward == 2    \* the schedule's clock is advanced at most this many times
MaxTicks == 2           \* a tick starts while fewer than this many checkpoints were written

-----------------------------------------------------------------------------
(***************************************************************************)
(* Helpers on sequences.                                                   *)
(***************************************************************************)
Last(s) == s[Len(s)]

Reverse(s) == [i \in 1..Len(s) |-> s[Len(s) + 1 - i]]

SeqToSet(s) == {s[i] : i \in 1..Len(s)}

Min(a, b) == IF a < b THEN a ELSE b

\* Python s[:n] and s[n:] for n >= 0.
Take(s, n) == SubSeq(s, 1, Min(n, Len(s)))

Drop(s, n) == SubSeq(s, n + 1, Len(s))

-----------------------------------------------------------------------------
(***************************************************************************)
(* The maze (modules/maze.py).  A coordinate is <<x, y>>; tiles[y][x] is a *)
(* Python list of lists, so an index -1 wraps to the last row or column    *)
(* and an index equal to the size raises IndexError.                       *)
(***************************************************************************)
Coords == (0..(MazeWidth - 1)) \X (0..(MazeHeight - 1))

\* Python list indexing of tiles[c[1]][c[0]]: is the index pair valid at all?
IndexValid(c) ==
    /\ c[1] >= -MazeWidth /\ c[1] < MazeWidth
    /\ c[2] >= -MazeHeight /\ c[2] < MazeHeight

\* The coordinate of the tile that tiles[c[1]][c[0]] denotes (negative wraps).
tile_at(c) ==
    << IF c[1] < 0 THEN c[1] + MazeWidth ELSE c[1],
       IF c[2] < 0 THEN c[2] + MazeHeight ELSE c[2] >>

\* The four neighbour coordinates in the order the code lists them.
AroundCoords(c) ==
    << <<c[1] - 1, c[2]>>, <<c[1] + 1, c[2]>>, <<c[1], c[2] - 1>>, <<c[1], c[2] + 1>> >>

\* get_around raises IndexError when tile_at is applied to a coordinate past
\* the right or bottom edge while filtering on collision.
get_around_raises(c) ==
    \E i \in 1..4 : ~IndexValid(AroundCoords(c)[i])

\* get_around(coord, no_collision=True) when it does not raise.
get_around(coll, c) ==
    LET NoColl(n) == tile_at(n) \notin coll
    IN  SelectSeq(AroundCoords(c), NoColl)

\* The bounds test of find_path's inner loop.
InSearchRange(c) ==
    /\ 0 < c[1] /\ c[1] < MazeWidth - 1
    /\ 0 < c[2] /\ c[2] < MazeHeight - 1

\* One pass of "for c in self.get_around(f)" over the neighbours cs of f:
\* st = [map, new_frontier, visited].
RECURSIVE VisitAround(_, _, _)
VisitAround(st, f, cs) ==
    IF cs = <<>> THEN st
    ELSE LET c == Head(cs)
             take == /\ InSearchRange(c)
                     /\ st.map[c] = 0
                     /\ c \notin st.visited
             st2 == IF take
                    THEN [map |-> [st.map EXCEPT ![c] = st.map[f] + 1],
                          new_frontier |-> Append(st.new_frontier, c),
                          visited |-> st.visited \cup {c}]
                    ELSE st
         IN  VisitAround(st2, f, Tail(cs))

\* "for f in frontier": fs is the rest of the frontier.
RECURSIVE VisitFrontier(_, _, _)
VisitFrontier(coll, st, fs) ==
    IF fs = <<>> THEN st
    ELSE VisitFrontier(coll, VisitAround(st, Head(fs), get_around(coll, Head(fs))), Tail(fs))

\* The search loop "while map[dst] == 0".  With an empty frontier and dst
\* unmarked an iteration changes nothing, so the loop never exits: "hang".
RECURSIVE SearchLoop(_, _, _, _)
SearchLoop(coll, dst, map, loop) ==
    IF map[dst] # 0 THEN [outcome |-> "found", map |-> map]
    ELSE IF loop.frontier = <<>> THEN [outcome |-> "hang", map |-> map]
    ELSE IF \E i \in 1..Len(loop.frontier) : get_around_raises(loop.frontier[i])
         THEN [outcome |-> "raise", map |-> map]
    ELSE LET st == VisitFrontier(coll,
                       [map |-> map, new_frontier |-> <<>>, visited |-> loop.visited],
                       loop.frontier)
         IN  SearchLoop(coll, dst, st.map,
                        [frontier |-> st.new_frontier, visited |-> st.visited])

\* The first neighbour c of p (in get_around order) with map[c] = step - 1,
\* as a one-element sequence, or <<>> when the for loop finds none.
PrevStep(coll, map, p, step) ==
    LET IsPrev(c) == map[tile_at(c)] = step - 1
        hits == SelectSeq(get_around(coll, p), IsPrev)
    IN  IF hits = <<>> THEN <<>> ELSE <<Head(hits)>>

\* The backtrace loop "while step > 1".
RECURSIVE Backtrace(_, _, _, _)
Backtrace(coll, map, path, step) ==
    IF step <= 1 THEN [outcome |-> "return", path |-> Reverse(path)]
    ELSE IF get_around_raises(Last(path)) THEN [outcome |-> "raise", path |-> <<>>]
    ELSE Backtrace(coll, map, path \o PrevStep(coll, map, Last(path), step), step - 1)

\* Maze.find_path(src_coord, dst_coord): [outcome, path] with outcome
\* "return" (path is the returned list), "raise" (IndexError escapes) or
\* "hang" (the search loop does not terminate).
NoResult == [outcome |-> "none", path |-> <<>>]

find_path(coll, src, dst) ==
    LET map0 == [c \in Coords |-> IF c = src THEN 1 ELSE 0]
        s == SearchLoop(coll, dst, map0, [frontier |-> <<src>>, visited |-> {}])
    IN  IF s.outcome = "found"
        THEN Backtrace(coll, s.map, <<dst>>, s.map[dst])
        ELSE [outcome |-> s.outcome, path |-> <<>>]

-----------------------------------------------------------------------------
(***************************************************************************)
(* The associative memory (modules/memory/associate.py) over the vector    *)
(* index (modules/storage/index.py).  Times are minutes.                   *)
(***************************************************************************)
DayMinutes == 1440

TTLDays == 30           \* default expire = create + 30 days

MaxRetries == 3         \* LlamaIndex._max_retries

NodeTypes == {"event", "thought", "chat"}

EmptyMemory == [t \in NodeTypes |-> <<>>]

DocIds(ds) == {d.id : d \in ds}

\* cleanup as it would be if it dropped only the expired nodes.
cleanup_expired_only(ds, t) == {d.id : d \in {x \in ds : x.expire < t}}

\* LlamaIndex.cleanup: the ids of the nodes with create > now or expire < now.
cleanup(ds, t) == {d.id : d \in {x \in ds : x.create > t \/ x.expire < t}}

\* LlamaIndex.remove_nodes.
remove_nodes(ds, ids) == {d \in ds : d.id \notin ids}

\* Associate.cleanup_index: [docs, memory] after the call.
cleanup_index(ds, mem, t) ==
    LET node_ids == cleanup(ds, t)
    IN  [docs |-> remove_nodes(ds, node_ids),
         memory |-> [n_type \in NodeTypes |->
                        SelectSeq(mem[n_type], LAMBDA n : n \notin node_ids)]]

\* add_node as it would be if the new id were appended to the type list.
add_node_append(ds, mem, M, node) ==
    LET inserted == ds \cup {node}
        mlist == mem[node.node_type] \o <<node.id>>
    IN  IF Len(mlist) >= M /\ M > 0
        THEN [docs |-> remove_nodes(inserted, SeqToSet(Drop(mlist, M))),
              memory |-> [mem EXCEPT ![node.node_type] = Take(mlist, M - 1)]]
        ELSE [docs |-> inserted,
              memory |-> [mem EXCEPT ![node.node_type] = mlist]]

\* Associate.add_node after the index accepted the node: [docs, memory].
add_node(ds, mem, M, node) ==
    LET inserted == ds \cup {node}
        mlist == <<node.id>> \o mem[node.node_type]
    IN  IF Len(mlist) >= M /\ M > 0
        THEN [docs |-> remove_nodes(inserted, SeqToSet(Drop(mlist, M))),
              memory |-> [mem EXCEPT ![node.node_type] = Take(mlist, M - 1)]]
        ELSE [docs |-> inserted,
              memory |-> [mem EXCEPT ![node.node_type] = mlist]]

\* No _add_concept call has returned yet.
NoCall == [called |-> FALSE, inserted |-> FALSE, returned |-> "None", prefix |-> ""]

\* Agent._add_concept after self.associate.add_node(...) returned; inserted
\* tells whether add_node returned a concept (TRUE) or None (FALSE).  Only the
\* branch "concept is None" has a return statement.
add_concept(inserted) ==
    IF ~inserted
    THEN [called |-> TRUE, inserted |-> FALSE, returned |-> "Concept", prefix |-> "tmp_"]
    ELSE [called |-> TRUE, inserted |-> TRUE, returned |-> "None", prefix |-> ""]

InitAssoc ==
    /\ docs = {}
    /\ max_nodes = 0
    /\ memory = EmptyMemory
    /\ max_memory \in {-1} \cup (1..MaxMemoryChoice)
    /\ persisted = [docs |-> {}, max_nodes |-> 0]
    /\ added = EmptyMemory
    /\ concept = NoCall

IdleAssoc ==
    /\ docs = {}
    /\ max_nodes = 0
    /\ memory = EmptyMemory
    /\ max_memory = -1
    /\ persisted = [docs |-> {}, max_nodes |-> 0]
    /\ added = EmptyMemory
    /\ concept = NoCall

\* The explicit create argument of Associate.add_node: a day before or a day
\* after the clock ("none" stands for None).
CreateArgs == {"earlier", "later"}

\* create = create or utils.get_timer().get_date()
create_or_now(arg, t) ==
    CASE arg = "none" -> t
      [] arg = "earlier" -> t - DayMinutes
      [] arg = "later" -> t + DayMinutes

\* Associate.add_node(node_type, ..., create=arg) whose insert succeeds at
\* the given attempt of LlamaIndex.add_node (the id is fixed by the first
\* attempt, max_nodes is incremented by every attempt).  The field given
\* records whether the caller passed a create time.
AddNodeCall(node_type, attempt, arg) ==
    /\ max_nodes < MaxNodeId
    /\ LET create == create_or_now(arg, now)
           expire == create + TTLDays * DayMinutes
           node == [id |-> max_nodes, node_type |-> node_type,
                    create |-> create, expire |-> expire,
                    given |-> (arg # "none")]
           r == add_node(docs, memory, max_memory, node)
       IN  /\ docs' = r.docs
           /\ memory' = r.memory
           /\ added' = [added EXCEPT ![node_type] = <<node.id>> \o @]
    /\ concept' = add_concept(TRUE)
    /\ max_nodes' = max_nodes + attempt
    /\ UNCHANGED <<outsideAssoc, now, forwards, max_memory, persisted>>

\* add_node without a create time, as every caller in the repository does.
AssocAddNode ==
    \E node_type \in NodeTypes, attempt \in 1..MaxRetries :
        AddNodeCall(node_type, attempt, "none")

\* add_node with an explicit create time.
AssocAddNodeAt ==
    \E node_type \in NodeTypes, arg \in CreateArgs :
        /\ Cardinality({d \in docs : d.given}) < MaxGiven
        /\ AddNodeCall(node_type, 1, arg)

\* Associate.add_node whose insert fails in all attempts: the exception of
\* LlamaIndex.add_node is caught, None is returned, memory is untouched.
AssocAddNodeFails ==
    /\ max_nodes < MaxNodeId
    /\ max_nodes' = max_nodes + MaxRetries
    /\ concept' = add_concept(FALSE)
    /\ UNCHANGED <<outsideAssoc, now, forwards, docs, memory, max_memory, persisted, added>>

\* Associate.cleanup_index().
AssocCleanup ==
    /\ LET r == cleanup_index(docs, memory, now)
       IN  /\ docs' = r.docs
           /\ memory' = r.memory
    /\ UNCHANGED <<outsideAssoc, now, forwards, max_nodes, max_memory, persisted, added, concept>>

\* Associate.to_dict(): index.save() persists the docstore and its config.
AssocSave ==
    /\ persisted' = [docs |-> docs, max_nodes |-> max_nodes]
    /\ UNCHANGED <<outsideAssoc, now, forwards, docs, max_nodes, memory, max_memory, added, concept>>

\* Agent.__init__ on resume: a new Associate over the persisted index.  No
\* memory argument is passed, so the type lists start empty; the constructor
\* ends with cleanup_index().
AssocResume ==
    /\ persisted.docs # {}
    /\ LET r == cleanup_index(persisted.docs, EmptyMemory, now)
       IN  /\ docs' = r.docs
           /\ memory' = r.memory
    /\ max_nodes' = persisted.max_nodes
    /\ added' = EmptyMemory
    /\ UNCHANGED <<outsideAssoc, now, forwards, max_memory, persisted, concept>>

\* The simulated clock moves on between calls (by a day, or past the TTL).
AssocForward ==
    \E d \in {1, TTLDays + 1} :
        /\ forwards < MaxForward
        /\ forwards' = forwards + 1
        /\ now' = now + d * DayMinutes
        /\ UNCHANGED <<outsideAssoc, assocVars>>

NextAssoc ==
    \/ AssocAddNode
    \/ AssocAddNodeFails
    \/ AssocCleanup
    \/ AssocSave
    \/ AssocResume
    \/ AssocForward

-----------------------------------------------------------------------------
(***************************************************************************)
(* The daily schedule (modules/memory/schedule.py) and Agent.make_schedule *)
(* (modules/agent.py).  Times of day are minutes since midnight.  The      *)
(* timer helpers of modules/utils are not part of the source tree; they    *)
(* are modelled by their documented meaning.                               *)
(***************************************************************************)
\* timer.daily_duration(): minutes since midnight of the time t.
daily_duration(t) == t % DayMinutes

\* The calendar day of the time t (what daily_format() distinguishes).
day_of(t) == t \div DayMinutes

\* _to_duration("H:00") of make_schedule for the hour key h.
to_duration(h) == h * 60

\* Plan describes: the sleep seed of make_schedule and an activity the LLM names.
SleepDescribe == "shuijiao"

ActivityDescribe == "activity"

\* Which describes contain "sleep"/"bed", "睡"/"床", "sleeping"/"asleep"/"in bed".
HasEnglishSleepWord(describe) == describe \in {"sleeping_shuijiao", "sleeping"}

HasChineseSleepWord(describe) == describe \in {"sleeping_shuijiao", SleepDescribe}

HasSleepingWord(describe) == describe \in {"sleeping_shuijiao", "sleeping"}

\* Schedule.scheduled().
scheduled(ds, created, t) ==
    IF ds = <<>> THEN FALSE ELSE day_of(t) = created

\* Schedule.add_plan(describe, duration): the plan starts where the last one ends.
add_plan(ds, describe, duration) ==
    LET start == IF ds # <<>> THEN Last(ds).start + Last(ds).duration ELSE 0
    IN  Append(ds, [describe |-> describe, start |-> start,
                    duration |-> duration, decompose |-> <<>>])

\* Schedule.plan_stamps(plan)[1]: the end of a plan or sub-plan.
plan_end(p) == p.start + p.duration

\* Schedule.current_plan(): [plan, de_plan] as indexes into daily_schedule and
\* into plan.decompose (de_plan = 0: the plan itself is returned twice).
current_plan(ds, t) ==
    LET total_minute == daily_duration(t)
        open == {i \in 1..Len(ds) : plan_end(ds[i]) > total_minute}
    IN  IF open = {}
        THEN [plan |-> Len(ds), de_plan |-> 0]
        ELSE LET i == CHOOSE k \in open : \A j \in open : k <= j
                 de_open == {k \in 1..Len(ds[i].decompose) :
                                plan_end(ds[i].decompose[k]) > total_minute}
             IN  IF de_open = {}
                 THEN [plan |-> i, de_plan |-> 0]
                 ELSE [plan |-> i,
                       de_plan |-> CHOOSE k \in de_open : \A j \in de_open : k <= j]

\* Schedule.decompose(plan): does the plan need a decomposition?
decompose(plan) ==
    IF Len(plan.decompose) > 0 THEN FALSE
    ELSE IF ~HasEnglishSleepWord(plan.describe) THEN TRUE
    ELSE IF ~HasChineseSleepWord(plan.describe) THEN TRUE
    ELSE IF HasSleepingWord(plan.describe) THEN FALSE
    ELSE IF HasChineseSleepWord(plan.describe) THEN FALSE
    ELSE IF HasEnglishSleepWord(plan.describe) THEN plan.duration <= 60
    ELSE TRUE

\* The wake-up hours the wake_up prompt can yield here (its failsafe is 6).
WakeUps == {0, 6}

\* The failsafe of prompt_schedule_daily: the hours 6:00 .. 23:00.
ScheduleDailyFailsafe == 6..23

\* What completion("schedule_daily") can return: the hour keys of a parsed
\* reply with at least 5 entries, or the failsafe.
ScheduleDailyResults == {ScheduleDailyFailsafe, {0, 8, 12, 18, 22}, {7, 9, 12, 15, 19, 21}}

\* The schedule dict of make_schedule: start minute -> describe.  The sleep
\* seed covers the hours before wake_up, the LLM's keys overwrite the seed.
schedule_dict(wake_up, hours) ==
    [m \in {to_duration(h) : h \in (0..(wake_up - 1)) \cup hours} |->
        IF \E h \in hours : to_duration(h) = m THEN ActivityDescribe ELSE SleepDescribe]

\* list(sorted(S)) for a set of numbers.
RECURSIVE Sorted(_)
Sorted(S) ==
    IF S = {} THEN <<>>
    ELSE LET m == CHOOSE x \in S : \A y \in S : x <= y
         IN  <<m>> \o Sorted(S \ {m})

\* The loop "for idx, start in enumerate(starts)" of make_schedule from idx on.
RECURSIVE AddPlans(_, _, _, _)
AddPlans(ds, schedule, starts, idx) ==
    IF idx > Len(starts) THEN ds
    ELSE LET start == starts[idx]
             end == IF idx + 1 <= Len(starts) THEN starts[idx + 1] ELSE 24 * 60
         IN  AddPlans(add_plan(ds, schedule[start], end - start), schedule, starts, idx + 1)

\* What completion("schedule_decompose") can return for a plan: the parsed
\* durations (two digits at most) padded with the time left, or the
\* failsafe of ten-minute pieces.
DecomposeReplies == {<<>>, <<30>>, <<99>>}

RECURSIVE SumSeq(_)
SumSeq(q) == IF q = <<>> THEN 0 ELSE Head(q) + SumSeq(Tail(q))

schedule_decompose_callback(plan, reply) ==
    LET left == plan.duration - SumSeq(reply)
    IN  IF left > 0 THEN Append(reply, left) ELSE reply

schedule_decompose_failsafe(plan) == [i \in 1..(plan.duration \div 10) |-> 10]

\* The (describe, duration) lists completion("schedule_decompose") can return.
schedule_decompose(plan) ==
    {schedule_decompose_failsafe(plan)}
        \cup {schedule_decompose_callback(plan, reply) : reply \in DecomposeReplies}

\* The loop of make_schedule that turns (describe, duration) pairs into
\* sub-plans, starting at plan.start.
RECURSIVE DecomposeList(_, _)
DecomposeList(durations, start) ==
    IF durations = <<>> THEN <<>>
    ELSE <<[start |-> start, duration |-> Head(durations)]>>
             \o DecomposeList(Tail(durations), start + Head(durations))

InitSched ==
    /\ daily_schedule = <<>>
    /\ schedule_create = -1
    /\ plan_result = [plan |-> 0, de_plan |-> 0]

IdleSched == InitSched

\* The part of Associate.add_node / Agent._add_concept that changes the store:
\* the index accepts the node at the given attempt, or rejects every attempt.
AddConcept(ds, mem, node_type, ok) ==
    IF ok
    THEN LET node == [id |-> max_nodes, node_type |-> node_type,
                      create |-> now, expire |-> now + TTLDays * DayMinutes,
                      given |-> FALSE]
             r == add_node(ds, mem, max_memory, node)
         IN  /\ docs' = r.docs
             /\ memory' = r.memory
             /\ added' = [added EXCEPT ![node_type] = <<node.id>> \o @]
             /\ max_nodes' = max_nodes + 1
             /\ concept' = add_concept(TRUE)
    ELSE /\ docs' = ds
         /\ memory' = mem
         /\ added' = added
         /\ max_nodes' = max_nodes + MaxRetries
         /\ concept' = add_concept(FALSE)

\* Agent.make_schedule(): generates the day's schedule when none is scheduled
\* for today, and returns schedule.current_plan().
MakeSchedule ==
    /\ IF ~scheduled(daily_schedule, schedule_create, now)
       THEN \E wake_up \in WakeUps, hours \in ScheduleDailyResults, stored \in BOOLEAN :
            LET cleaned == IF docs # {} THEN cleanup_index(docs, memory, now)
                           ELSE [docs |-> docs, memory |-> memory]
                schedule == schedule_dict(wake_up, hours)
                starts == Sorted(DOMAIN schedule)
                ds == AddPlans(daily_schedule, schedule, starts, 1)
                cur == current_plan(ds, now).plan
                plan == ds[cur]
            IN  /\ schedule_create' = day_of(now)
                /\ AddConcept(cleaned.docs, cleaned.memory, "thought", stored)
                /\ IF decompose(plan)
                   THEN \E durations \in schedule_decompose(plan) :
                           daily_schedule' =
                               [ds EXCEPT ![cur].decompose =
                                              DecomposeList(durations, plan.start)]
                   ELSE daily_schedule' = ds
       ELSE UNCHANGED <<daily_schedule, schedule_create, docs, memory, added, max_nodes,
                        concept>>
    /\ plan_result' = current_plan(daily_schedule', now)
    /\ UNCHANGED <<outsideSched, now, forwards, max_memory, persisted>>

\* The simulated clock moves on by half a day or a day between two calls.
SchedForward ==
    \E d \in {DayMinutes \div 2, DayMinutes} :
        /\ forwards < MaxSchedForward
        /\ forwards' = forwards + 1
        /\ now' = now + d
        /\ UNCHANGED <<outsideSched, assocVars, schedVars>>

NextSched == MakeSchedule \/ SchedForward

-----------------------------------------------------------------------------
(***************************************************************************)
(* Specification of the pathfinder: a grid, a source and a destination are *)
(* drawn, then find_path is called once.                                   *)
(***************************************************************************)
InitMaze ==
    /\ collision \in {s \in SUBSET Coords : Cardinality(s) <= MaxCollision}
    /\ src_coord \in Coords \ collision
    /\ dst_coord \in Coords
    /\ path_result = NoResult

IdleMaze ==
    /\ collision = {}
    /\ src_coord = <<0, 0>>
    /\ dst_coord = <<0, 0>>
    /\ path_result = NoResult

CallFindPath ==
    /\ path_result.outcome = "none"
    /\ path_result' = find_path(collision, src_coord, dst_coord)
    /\ UNCHANGED <<outsideMaze, collision, src_coord, dst_coord>>

-----------------------------------------------------------------------------
(***************************************************************************)
(* The town: tiles with their events (modules/maze.py) and the agents that *)
(* move over them (modules/agent.py).  An address is the name of the game  *)
(* object it ends with; a tile without a game object has the address of    *)
(* the world only.  An event is [subject, predicate, address].             *)
(***************************************************************************)
Agents == {"a1", "a2"}

\* The order of the dicts config["agents"], Game.agents and agent_status.
AgentOrder == <<"a1", "a2">>

Objects == {"bed", "desk", "lamp"}

World == "world"

NoAddress == "none"

\* The tile of each game object; the lamp stands on the right border.
ObjectTile(o) ==
    CASE o = "bed" -> <<1, 1>>
      [] o = "desk" -> <<2, 2>>
      [] o = "lamp" -> <<MazeWidth - 1, 1>>

\* Tile.get_address(): the address of the tile at c.
TileAddress(c) ==
    IF \E o \in Objects : ObjectTile(o) = c
    THEN CHOOSE o \in Objects : ObjectTile(o) = c
    ELSE World

\* Tile.has_address("game_object").
has_game_object(c) == TileAddress(c) # World

\* Maze.address_tiles[addr] for the address of a game object.
address_tiles(addr) == {c \in Coords : TileAddress(c) = addr}

\* Maze.get_address_tiles(address): the tile sets the call can return.  An
\* unknown address yields random.choice of all the known tile collections.
get_address_tiles(addr) ==
    IF addr \in Objects THEN {address_tiles(addr)}
    ELSE {address_tiles(o) : o \in Objects}

\* The coord entry of each agent's static agent.json.
StaticCoord(name) == IF name = "a1" THEN <<1, 2>> ELSE <<2, 1>>

NoCoord == <<-1, -1>>

Event(subject, predicate, address) ==
    [subject |-> subject, predicate |-> predicate, address |-> address]

\* Event(addr[-1], address=addr): the idle event of a game object.
IdleEvent(addr) == Event(addr, "idle", addr)

\* Tile.__init__: a tile with a full address starts with its object's idle event.
InitTiles ==
    [c \in Coords |-> IF has_game_object(c) THEN <<IdleEvent(TileAddress(c))>> ELSE <<>>]

\* Tile.add_event: appended unless an equal event is present.
add_event(evs, event) ==
    IF \A i \in 1..Len(evs) : evs[i] # event THEN Append(evs, event) ELSE evs

\* Tile.remove_events(subject=...).
remove_events(evs, subject) ==
    SelectSeq(evs, LAMBDA e : e.subject # subject)

\* Tile.update_events(event): every event of the same subject is replaced.
update_events(evs, event) ==
    [i \in 1..Len(evs) |-> IF evs[i].subject = event.subject THEN event ELSE evs[i]]

\* Is the dict update_events returns non-empty?
updated_any(evs, event) == \E i \in 1..Len(evs) : evs[i].subject = event.subject

\* Always adding the event, whether or not the tile holds one of its subject.
update_tile_events_always_add(evs, event) == add_event(evs, event)

\* "if not tile.update_events(event): tile.add_event(event)" of Agent.move.
update_tile_events(evs, event) ==
    IF updated_any(evs, event) THEN update_events(evs, event) ELSE add_event(evs, event)

\* Maze.update_obj(coord, obj_event).
update_obj(ts, coord, obj_event) ==
    IF ~has_game_object(coord) THEN ts
    ELSE IF obj_event.address # TileAddress(coord) THEN ts
    ELSE [c \in Coords |->
             IF c \in address_tiles(obj_event.address)
             THEN update_events(ts[c], obj_event) ELSE ts[c]]

\* An action: its event, its object event, its duration and its end time.
Action(event, obj_event, start, duration) ==
    [event |-> event, obj_event |-> obj_event, duration |-> duration,
     end |-> start + duration]

\* Action.finished() at time t.
finished(action, t) ==
    IF action.duration = 0 THEN TRUE
    ELSE IF action.event.address = NoAddress THEN TRUE
    ELSE t > action.end

\* Agent.is_awake().
is_awake(ag) == ag.action.event.predicate # "sleeping"

\* _update_tile(coord) inside Agent.move.
update_tile(ts, ag, coord) ==
    LET t1 == [ts EXCEPT ![coord] = update_tile_events(@, ag.action.event)]
    IN  update_obj(t1, coord, ag.action.obj_event)

\* Agent.move as it would be if the old tile were left as it is.
move_without_leaving(ts, ag, coord, path) ==
    LET arrived == IF path = <<>> THEN update_tile(ts, ag, coord) ELSE ts
    IN  [tiles |-> arrived, agent |-> [ag EXCEPT !.coord = coord, !.path = path]]

\* Agent.move(coord, path): [tiles, agent] after the call.
move(ts, ag, coord, path) ==
    LET left == IF ag.coord # NoCoord /\ ag.coord # coord
                THEN LET removed == [ts EXCEPT ![ag.coord] = remove_events(@, ag.name)]
                     IN  IF has_game_object(ag.coord)
                         THEN update_obj(removed, ag.coord, IdleEvent(TileAddress(ag.coord)))
                         ELSE removed
                ELSE ts
        arrived == IF path = <<>> THEN update_tile(left, ag, coord) ELSE left
    IN  [tiles |-> arrived, agent |-> [ag EXCEPT !.coord = coord, !.path = path]]

\* Agent.__init__ without an "action" in the config: the agent stands on
\* config["coord"] with an idle action of duration 0.
NewAgent(ts, name, coord, t) ==
    LET address == TileAddress(coord)
        ag == [name |-> name, coord |-> NoCoord, path |-> <<>>,
               action |-> Action(Event(name, "idle", address), IdleEvent(address), t, 0),
               scheduled |-> FALSE, has_memory |-> FALSE]
    IN  move(ts, ag, coord, <<>>)

\* Agent.__init__ with an "action" in the config (a resumed agent): the
\* action, schedule and status come from the config, the coord is a random
\* tile of the action's address, and the memory type lists start empty.
RestoredAgents(ts, name, saved) ==
    LET ag == [name |-> name, coord |-> NoCoord, path |-> <<>>,
               action |-> saved.action, scheduled |-> saved.scheduled, has_memory |-> FALSE]
    IN  UNION {{move(ts, ag, c, <<>>) : c \in tset} :
                  tset \in get_address_tiles(saved.action.event.address)}

\* The durations a determined or sleeping action can get from the plan.
ActionDurations == {5}

Result(ts, ag, outcome, path) ==
    [tiles |-> ts, agent |-> ag, outcome |-> outcome, path |-> path]

\* _ignore_target of Agent.find_path: the agent's own tile, or a tile that
\* holds an event of some agent.
ignore_target(ts, ag, t_coord) ==
    \/ t_coord = ag.coord
    \/ \E i \in 1..Len(ts[t_coord]) : ts[t_coord][i].subject \in Agents

\* random.sample(target_tiles, 4) when there are 4 or more candidates.
sampled(cands) ==
    IF Cardinality(cands) >= 4
    THEN {smp \in SUBSET cands : Cardinality(smp) = 4}
    ELSE {cands}

\* The choice among the target tiles as it would be if any non-empty path
\* were taken.
paths_to_any(ts, ag, cands) ==
    LET res == [t \in cands |-> find_path(collision, ag.coord, t)]
        valid == {t \in cands : res[t].outcome = "return" /\ res[t].path # <<>>}
    IN  IF \E t \in cands : res[t].outcome = "hang"
        THEN {[outcome |-> "hang", path |-> <<>>]}
        ELSE IF valid = {}
        THEN {[outcome |-> "return", path |-> <<>>]}
        ELSE {[outcome |-> "return", path |-> Tail(res[t].path)] : t \in valid}

\* The loop over the target tiles of Agent.find_path and the choice of the
\* shortest non-empty path: the set of [outcome, path] the call can end with.
\* An exception of Maze.find_path is caught; a search that does not
\* terminate is not.
paths_to(ts, ag, cands) ==
    LET res == [t \in cands |-> find_path(collision, ag.coord, t)]
        valid == {t \in cands : res[t].outcome = "return" /\ res[t].path # <<>>}
        best == {t \in valid : \A w \in valid : Len(res[t].path) <= Len(res[w].path)}
    IN  IF \E t \in cands : res[t].outcome = "hang"
        THEN {[outcome |-> "hang", path |-> <<>>]}
        ELSE IF valid = {}
        THEN {[outcome |-> "return", path |-> <<>>]}
        ELSE {[outcome |-> "return", path |-> Tail(res[t].path)] : t \in best}

\* Agent.find_path from the target tiles on: the tiles are filtered, sampled
\* and tried.
path_to_tiles(ts, ag, tset) ==
    LET stay == {[outcome |-> "return", path |-> <<>>]}
    IN  IF tset = {} \/ ag.coord \in tset THEN stay
        ELSE LET cands == {t \in tset : ~ignore_target(ts, ag, t)}
             IN  IF cands = {} THEN stay
                 ELSE UNION {paths_to(ts, ag, smp) : smp \in sampled(cands)}

\* Agent.find_path(agents) for an address that names a place.
agent_find_path(ts, ag) ==
    LET address == ag.action.event.address
        stay == {[outcome |-> "return", path |-> <<>>]}
    IN  IF ag.path # <<>> THEN {[outcome |-> "return", path |-> ag.path]}
        ELSE IF address = TileAddress(ag.coord) THEN stay
        ELSE UNION {path_to_tiles(ts, ag, tset) : tset \in get_address_tiles(address)}

\* The end of think: the plan with the path find_path returns.
think_find_path(ts, ag) ==
    {Result(ts, ag, p.outcome, p.path) : p \in agent_find_path(ts, ag)}

\* Agent._determine_action(): the actions it can return.  The address is
\* found from the plan or named by the LLM.
determine_action(ag, t) ==
    {Action(Event(ag.name, "acting", o), Event(o, "used", o), t, d) :
        o \in Objects, d \in ActionDurations}

\* The percept / make_plan / reflect part of think (awake) or the
\* re-planning of a sleeper whose action is finished, then find_path.
\* completion() raises RuntimeError when no LLM is available.
think_plan(ts, ag, t) ==
    LET perceived == IF is_awake(ag)
                     THEN {ag, [ag EXCEPT !.has_memory = TRUE]}
                     ELSE {ag}
    IN  UNION {
            IF finished(a.action, t)
            THEN IF ~llm_available
                 THEN {Result(ts, a, "raise", <<>>)}
                 ELSE UNION {think_find_path(ts, [a EXCEPT !.action = act]) :
                                act \in determine_action(a, t)}
            ELSE think_find_path(ts, a)
            : a \in perceived}

\* The sleep branch of think: the agent is moved to a tile of its sleep
\* address and gets a sleeping action.  Without a sleep shortcut the address
\* is the empty list, and address[-1] raises IndexError after the move.
think_sleep(ts, ag, plan_is_sleep, t) ==
    IF plan_is_sleep /\ is_awake(ag)
    THEN LET address == IF sleep_known THEN "bed" ELSE NoAddress
         IN  UNION {UNION {
                 LET m == move(ts, ag, c, <<>>)
                 IN  IF address = NoAddress
                     THEN {Result(m.tiles, m.agent, "raise", <<>>)}
                     ELSE UNION {
                         think_plan(m.tiles,
                             [m.agent EXCEPT !.action =
                                 Action(Event(ag.name, "sleeping", address),
                                        Event(address, "occupied", address), t, d)], t)
                         : d \in ActionDurations}
                 : c \in tset} : tset \in get_address_tiles(address)}
    ELSE think_plan(ts, ag, t)

\* make_schedule inside think: a schedule is generated (with the LLM) when
\* none is scheduled for today; the current plan is a sleep plan or not.
think_schedule(ts, ag, t) ==
    IF ~ag.scheduled /\ ~llm_available
    THEN {Result(ts, ag, "raise", <<>>)}
    ELSE UNION {think_sleep(ts, [ag EXCEPT !.scheduled = TRUE], plan_is_sleep, t) :
                   plan_is_sleep \in BOOLEAN}

\* Agent.think(status, agents): the set of [tiles, agent, outcome, path] the
\* call can end with; outcome is "return" (path is plan["path"]), "raise"
\* (an exception escapes) or "hang" (the call does not return).
think(ts, ag, status, t) ==
    LET m == move(ts, ag, status.coord, status.path)
    IN  think_schedule(m.tiles, m.agent, t)

-----------------------------------------------------------------------------
(***************************************************************************)
(* The simulation server (start.py): the tick loop of simulate(), the      *)
(* checkpoint files and the resume path of get_config_from_log.            *)
(***************************************************************************)
StartTime == 0

\* The values of --stride.
Strides == {0, 10}

\* The values of --step.
Steps == {1, 2}

NoSnapshot == [saved |-> FALSE]

\* Agent.to_dict() plus the coord entry, as simulate() stores them in
\* config["agents"][name].
Snapshot(ag, coord) ==
    [saved |-> TRUE, coord |-> coord, action |-> ag.action,
     scheduled |-> ag.scheduled, has_memory |-> ag.has_memory]

\* Game.__init__ of a new simulation: the agents are built one after the
\* other on the fresh maze, each on the coord of its agent.json.
RECURSIVE NewAgents(_, _, _, _)
NewAgents(ts, ags, k, t) ==
    IF k > Len(AgentOrder) THEN [tiles |-> ts, agents |-> ags]
    ELSE LET m == NewAgent(ts, AgentOrder[k], StaticCoord(AgentOrder[k]), t)
         IN  NewAgents(m.tiles, [ags EXCEPT ![AgentOrder[k]] = m.agent], k + 1, t)

\* Game.__init__ of a resumed simulation: the set of [tiles, agents] it can build.
RECURSIVE ResumedAgents(_, _, _, _)
ResumedAgents(ts, ags, k, cfg) ==
    IF k > Len(AgentOrder) THEN {[tiles |-> ts, agents |-> ags]}
    ELSE UNION {ResumedAgents(m.tiles, [ags EXCEPT ![AgentOrder[k]] = m.agent], k + 1, cfg) :
                   m \in RestoredAgents(ts, AgentOrder[k], cfg.agents[AgentOrder[k]])}

\* SimulateServer.__init__: every agent's status starts at the coord of its
\* static agent.json, with an empty path.
InitStatus == [name \in Agents |-> [coord |-> StaticCoord(name), path |-> <<>>]]

NoAgents == [name \in Agents |-> [name |-> name]]

\* The resumed run starts at the time of the last checkpoint itself.
resume_start_time_same(cfg) == cfg.time

\* The start time get_config_from_log computes from the last checkpoint.
resume_start_time(cfg) == cfg.time + cfg.stride

\* Timer.forward(minutes): the simulated clock moves on by that many minutes.
timer_forward(t, minutes) == t + minutes

\* The clock is never advanced at the end of a tick.
forward_never(t, s) == t

\* The time after "if stride > 0: timer.forward(stride)".
forward(t, s) == IF s > 0 THEN timer_forward(t, s) ELSE t

InitSim ==
    /\ llm_available \in BOOLEAN
    /\ sleep_known \in BOOLEAN
    /\ collision = {}
    /\ src_coord = <<0, 0>>
    /\ dst_coord = <<0, 0>>
    /\ path_result = NoResult
    /\ now = StartTime
    /\ forwards = 0
    /\ LET g == NewAgents(InitTiles, NoAgents, 1, StartTime)
       IN  tiles = g.tiles /\ agents = g.agents
    /\ agent_status = InitStatus
    /\ stride \in Strides
    /\ config = [stride |-> stride, time |-> StartTime, step |-> 0,
                 agents |-> [name \in Agents |-> NoSnapshot]]
    /\ files = <<>>
    /\ latest = config
    /\ start_step = 0
    /\ step_i = 0
    /\ end_step \in Steps
    /\ think_idx = 1
    /\ pc = "think"
    /\ resumed = FALSE
    /\ strides_used = {stride}
    /\ thinkers = {}
    /\ log = <<>>

IdleSim ==
    /\ llm_available = TRUE
    /\ sleep_known = TRUE
    /\ tiles = InitTiles
    /\ agents = NoAgents
    /\ agent_status = InitStatus
    /\ stride = 0
    /\ config = [stride |-> 0, time |-> StartTime, step |-> 0,
                 agents |-> [name \in Agents |-> NoSnapshot]]
    /\ files = <<>>
    /\ latest = config
    /\ start_step = 0
    /\ step_i = 0
    /\ end_step = 0
    /\ think_idx = 1
    /\ pc = "idle"
    /\ resumed = FALSE
    /\ strides_used = {}
    /\ thinkers = {}
    /\ log = <<>>

\* One pass of "for name, status in self.agent_status.items()": the agent
\* thinks, its to_dict() goes into the config, and the status coord becomes
\* the end of the returned path.  An exception ends the process, a think
\* that does not return blocks it.
ServerThink ==
    /\ pc = "think"
    /\ Len(log) < MaxTicks
    /\ LET name == AgentOrder[think_idx]
       IN  \E r \in think(tiles, agents[name], agent_status[name], now) :
            /\ tiles' = r.tiles
            /\ agents' = [agents EXCEPT ![name] = r.agent]
            /\ thinkers' = thinkers \cup {[name |-> name, time |-> now]}
            /\ IF r.outcome = "return"
               THEN LET coord == IF r.path # <<>> THEN Last(r.path)
                                 ELSE agent_status[name].coord
                    IN  /\ agent_status' = [agent_status EXCEPT
                                               ![name] = [coord |-> coord, path |-> <<>>]]
                        /\ config' = [config EXCEPT
                                         !.agents[name] = Snapshot(r.agent, coord)]
                        /\ IF think_idx < Len(AgentOrder)
                           THEN think_idx' = think_idx + 1 /\ pc' = "think"
                           ELSE think_idx' = 1 /\ pc' = "checkpoint"
               ELSE /\ pc' = IF r.outcome = "raise" THEN "crashed" ELSE "hung"
                    /\ UNCHANGED <<agent_status, config, think_idx>>
    /\ UNCHANGED <<outsideSim, now, forwards, llm_available, sleep_known, files, latest, start_step,
                   end_step, stride, step_i, resumed, strides_used, log>>

\* The end of a tick's body: time and step go into the config, which is
\* written to simulate-<time>.json.
ServerCheckpoint ==
    /\ pc = "checkpoint"
    /\ config' = [config EXCEPT !.time = now, !.step = step_i + 1]
    /\ files' = [t \in (DOMAIN files) \cup {now} |->
                    IF t = now THEN [time |-> now, step |-> step_i + 1] ELSE files[t]]
    /\ latest' = config'
    /\ log' = Append(log, [time |-> now, step |-> step_i + 1, resumed |-> resumed,
                           thinkers |-> thinkers, new_file |-> now \notin DOMAIN files])
    /\ pc' = "forward"
    /\ UNCHANGED <<outsideSim, now, forwards, townVars, agent_status, start_step, end_step, stride,
                   step_i, think_idx, resumed, strides_used, thinkers>>

\* "if stride > 0: timer.forward(stride)" and the next iteration of the loop.
ServerForward ==
    /\ pc = "forward"
    /\ now' = forward(now, stride)
    /\ step_i' = step_i + 1
    /\ pc' = IF step_i + 1 < end_step THEN "think" ELSE "done"
    /\ thinkers' = {}
    /\ UNCHANGED <<outsideSim, forwards, townVars, agent_status, config, files, latest, start_step,
                   end_step, stride, think_idx, resumed, strides_used, log>>

\* The process is stopped from outside, wherever it is.
Interrupt ==
    /\ pc \in {"think", "checkpoint", "forward", "hung"}
    /\ pc' = "stopped"
    /\ UNCHANGED <<outsideSim, now, forwards, townVars, agent_status, config, files, latest,
                   start_step, end_step, stride, step_i, think_idx, resumed,
                   strides_used, thinkers, log>>

\* start.py --resume: get_config_from_log reads the last checkpoint file,
\* the timer starts one stride (of the checkpoint) later, the game and the
\* server are built anew and simulate() starts at the recorded step.
Resume ==
    /\ pc \in {"stopped", "done", "crashed"}
    /\ DOMAIN files # {}
    /\ \E new_stride \in Strides, step \in Steps :
        \E g \in ResumedAgents(InitTiles, NoAgents, 1, latest) :
            /\ now' = resume_start_time(latest)
            /\ config' = [latest EXCEPT !.time = resume_start_time(latest)]
            /\ tiles' = g.tiles
            /\ agents' = g.agents
            /\ agent_status' = InitStatus
            /\ start_step' = latest.step
            /\ step_i' = latest.step
            /\ end_step' = latest.step + step
            /\ stride' = new_stride
            /\ strides_used' = strides_used \cup {new_stride}
    /\ think_idx' = 1
    /\ pc' = "think"
    /\ resumed' = TRUE
    /\ thinkers' = {}
    /\ UNCHANGED <<outsideSim, forwards, llm_available, sleep_known, files, latest, log>>

NextSim ==
    \/ ServerThink
    \/ ServerCheckpoint
    \/ ServerForward
    \/ Interrupt
    \/ Resume

-----------------------------------------------------------------------------
(***************************************************************************)
(* The language model wrapper (modules/model/llm_model.py): completion()   *)
(* with its retry loop and the request counters of _summary.               *)
(***************************************************************************)
LlmRetryDefault == 10   \* completion(..., retry=10, ...)

\* The retry arguments of the call sites (scratch.py passes 1 for emojis).
Retries == {1, LlmRetryDefault}

\* The caller tags (Agent.completion passes its func_hint).
Callers == {"wake_up", "poignancy_event"}

\* What one iteration of the loop meets: the provider raises, the callback
\* raises, the callback returns None, a falsy value (0, "", []) or a value.
Outcomes == {"raise", "callback_raise", "none", "falsy", "value"}

None == "None"

NoCompletion ==
    [pc |-> "idle", caller |-> "", retry |-> 0, tries |-> 0,
     response |-> None, stale |-> FALSE, unparsed |-> 0]

NoCalls == [c \in Callers |-> <<0, 0, 0>>]

\* self._summary.setdefault(caller, [0, 0, 0])
setdefault(sm, caller) ==
    [k \in DOMAIN sm \cup {caller} |-> IF k \in DOMAIN sm THEN sm[k] ELSE <<0, 0, 0>>]

\* count as it would be if the "total" entry were forgotten.
count_caller_only(sm, caller, pos) ==
    [sm EXCEPT ![caller] = [@ EXCEPT ![pos + 1] = @ + 1]]

\* self._summary["total"][pos] += 1; self._summary[caller][pos] += 1
count(sm, caller, pos) ==
    LET t == [sm EXCEPT !["total"] = [@ EXCEPT ![pos + 1] = @ + 1]]
    IN  [t EXCEPT ![caller] = [@ EXCEPT ![pos + 1] = @ + 1]]

\* The response an iteration leaves: the except branch sets None.
response_of(outcome) ==
    CASE outcome = "value" -> "value"
      [] outcome = "falsy" -> "falsy"
      [] OTHER -> None

\* The loop as it would be without its break.
breaks_never(response) == FALSE

\* if response is not None: break
breaks(response) == response # None

\* The loop as it would end if a failure were retried once only.
exhausted_after_one_retry(tries, retry) == tries >= Min(2, retry)

\* for _ in range(retry): the loop ends after retry iterations.
exhausted(tries, retry) == tries >= retry

\* return response or failsafe
response_or_failsafe(response) ==
    IF response = "value" THEN "value" ELSE "failsafe"

InitLLM ==
    /\ completion = NoCompletion
    /\ summary = [k \in {"total"} |-> <<0, 0, 0>>]
    /\ calls = NoCalls
    /\ returned = "nothing"

IdleLLM ==
    /\ completion = NoCompletion
    /\ summary = [k \in {"total"} |-> <<0, 0, 0>>]
    /\ calls = NoCalls
    /\ returned = "nothing"

CallsBegun == calls["wake_up"][1] + calls["poignancy_event"][1]

\* completion(prompt, retry, callback, failsafe, caller) is entered.
LlmCall ==
    \E caller \in Callers, retry \in Retries :
        /\ completion.pc = "idle"
        /\ CallsBegun < MaxCalls
        /\ completion' = [pc |-> "loop", caller |-> caller, retry |-> retry,
                          tries |-> 0, response |-> None, stale |-> FALSE,
                          unparsed |-> 0]
        /\ summary' = setdefault(summary, caller)
        /\ calls' = [calls EXCEPT ![caller] =
                        <<@[1] + 1, @[2], @[3] + retry>>]
        /\ UNCHANGED <<outsideLLM, returned>>

\* One iteration of "for _ in range(retry)": the provider is called once;
\* the request is counted when the provider returned.
LlmAttempt ==
    \E outcome \in Outcomes :
        /\ completion.pc = "loop"
        /\ LET response == response_of(outcome)
               tries == completion.tries + 1
           IN  /\ completion' =
                    [completion EXCEPT
                        !.tries = tries,
                        !.response = response,
                        !.stale = @ \/ completion.response # None,
                        !.unparsed = IF outcome = "callback_raise" THEN @ + 1 ELSE @,
                        !.pc = IF breaks(response) \/ exhausted(tries, completion.retry)
                               THEN "after" ELSE "loop"]
               /\ summary' = IF outcome = "raise" THEN summary
                             ELSE count(summary, completion.caller, 0)
        /\ UNCHANGED <<outsideLLM, calls, returned>>

\* After the loop: the call is counted as a success or a failure and
\* "response or failsafe" is returned.
LlmReturn ==
    /\ completion.pc = "after"
    /\ LET pos == IF completion.response = None THEN 2 ELSE 1
       IN  summary' = count(summary, completion.caller, pos)
    /\ returned' = response_or_failsafe(completion.response)
    /\ completion' = [completion EXCEPT !.pc = "idle"]
    /\ calls' = [calls EXCEPT ![completion.caller] = <<@[1], @[2] + 1, @[3]>>]
    /\ UNCHANGED outsideLLM

NextLLM ==
    \/ LlmCall
    \/ LlmAttempt
    \/ LlmReturn

-----------------------------------------------------------------------------
(***************************************************************************)
(* The chat protocol (modules/agent.py): the part of Agent.think that      *)
(* perceives events and reacts to another agent, as the server's tick loop *)
(* drives it: every agent thinks once per tick, in AgentOrder, with the    *)
(* empty path the server always passes.                                    *)
(***************************************************************************)
ChatStride == 10        \* --stride, default

CooldownMinutes == 60   \* if delta < 60: return False

CharsPerMinute == 240   \* duration = int(sum of len(text) / 240)

\* Lengths of the utterances of a chat, sleep durations, poignancy scores.
TextChars == {60}

SleepMinutes == {30}

Poignancies == {2}

\* The predicates and objects of the events are written in pinyin: "cishi"
\* is 此时, "kongxian" 空闲, "zhengzai" 正在, "shuijiao" 睡觉, "duihua" 对话 and
\* "daikaishi" 待开始.
NoDescribe == [text |-> "", at |-> -1]

\* memory.Event(subject, predicate, object, describe=, address=).
FullEvent(subject, predicate, object, describe, address) ==
    [subject |-> subject, predicate |-> predicate, object |-> object,
     describe |-> describe, address |-> address]

\* Event.get_describe(): the describe, or "<predicate> <object>" without one.
get_describe(ev) ==
    [subject |-> ev.subject,
     text |-> IF ev.describe.text # "" THEN ev.describe.text ELSE ev.object,
     at |-> ev.describe.at]

\* memory.Action(event, start=, duration=).
TimedAction(event, start, duration) ==
    [event |-> event, start |-> start, duration |-> duration]

\* Action.finished() at time t.
action_finished(action, t) ==
    IF action.duration = 0 THEN TRUE
    ELSE IF action.event.address = NoAddress THEN TRUE
    ELSE t > action.start + action.duration

\* Agent.is_awake(): the event is neither "<name> is sleeping" nor "<name> 正在 睡觉".
awake(ag) ==
    ~ \/ (ag.action.event.predicate = "is" /\ ag.action.event.object = "sleeping")
      \/ (ag.action.event.predicate = "zhengzai" /\ ag.action.event.object = "shuijiao")

\* Agent.__init__: the action is the idle event at the agent's tile, the
\* schedule and the memory are empty, the path is None.
NewPerson(name) ==
    [name |-> name,
     schedule |-> FALSE,
     action |-> TimedAction(FullEvent(name, "cishi", "kongxian", NoDescribe, "desk"), 0, 0),
     shown |-> FullEvent(name, "cishi", "kongxian", NoDescribe, "desk"),
     path |-> <<>>,
     chats |-> <<>>,
     memory |-> [event |-> <<>>, chat |-> <<>>, thought |-> <<>>],
     poignancy |-> 0,
     concepts |-> <<>>]

\* _skip(event) inside Agent._skip_react.
skip_event(event) ==
    \/ event.address = NoAddress
    \/ get_describe(event).text \in {"sleeping", "shuijiao"}
    \/ event.predicate = "daikaishi"

\* _skip_react as it would be if only the agent's own event were looked at.
skip_react_self_only(ag, other, t) ==
    \/ daily_duration(t) \div 60 >= 23
    \/ skip_event(ag.action.event)

\* Agent._skip_react(other).
skip_react(ag, other, t) ==
    \/ daily_duration(t) \div 60 >= 23
    \/ skip_event(ag.action.event)
    \/ skip_event(other.action.event)

\* The checks of Agent._chat_with(other) before the chat memory is read.
chat_with_guard(ag, other, t) ==
    /\ ag.schedule /\ other.schedule
    /\ ~skip_react(ag, other, t)
    /\ other.path = <<>>
    /\ ag.action.event.predicate # "duihua"
    /\ other.action.event.predicate # "duihua"

\* The tile of every agent of the chat runs belongs to the desk.
StandAddress == "desk"

\* The checks of _wait_other as they would be without the test of the path.
wait_other_guard_any_path(ag, other, t) ==
    /\ ~skip_react(ag, other, t)
    /\ ag.action.event.address = StandAddress

\* The checks of Agent._wait_other(other) before decide_wait is asked.
wait_other_guard(ag, other, t) ==
    /\ ~skip_react(ag, other, t)
    /\ ag.path # <<>>
    /\ ag.action.event.address = StandAddress

\* The action _wait_other installs: the agent waits until the other's
\* action ends.
wait_other(ag, other, t) ==
    [ag EXCEPT !.action =
        TimedAction(FullEvent(ag.name, "waiting to start", get_describe(ag.action.event).text,
                              NoDescribe, ag.action.event.address),
                    t, (other.action.start + other.action.duration) - t)]

\* chats = retrieve_chats(other.name); delta = get_delta(chats[0].create):
\* first is the rank-1 node of the vector retrieval (0: nothing retrieved).
cooldown_over(ag, first, t) ==
    IF first = 0 THEN TRUE
    ELSE t - ag.memory.chat[first].create >= CooldownMinutes

\* The chat loop of _chat_with: the utterance lists it can build, every
\* utterance c characters long.  In a round after the first an utterance can
\* be vetoed as a repeat, and the chat can be ended after each utterance but
\* the initiator's first.
\* Every utterance carries the verdict of generate_chat_check_repeat on it:
\* "unchecked" in the first round, where the check is not made, else "no".
Utterance(speaker, c, i) ==
    [speaker |-> speaker, chars |-> c, repeat |-> IF i > 0 THEN "no" ELSE "unchecked"]

\* The chat loop as it would be if an utterance were appended before the
\* repeat check.
RECURSIVE chat_loop_append_first(_, _, _, _, _)
chat_loop_append_first(a, b, c, i, chats) ==
    IF i >= ChatIter THEN {chats}
    ELSE LET own == Append(chats, Utterance(a, c, i))
             both == Append(own, Utterance(b, c, i))
             vetoed == [speaker |-> a, chars |-> c, repeat |-> "yes"]
         IN  (IF i > 0 THEN {Append(chats, vetoed), own, own} ELSE {})
                 \cup {both}
                 \cup chat_loop_append_first(a, b, c, i + 1, both)

RECURSIVE chat_loop(_, _, _, _, _)
chat_loop(a, b, c, i, chats) ==
    IF i >= ChatIter THEN {chats}
    ELSE LET own == Append(chats, Utterance(a, c, i))
             both == Append(own, Utterance(b, c, i))
         IN  (IF i > 0 THEN {chats, own, own} ELSE {})
                 \cup {both}
                 \cup chat_loop(a, b, c, i + 1, both)

\* sum([len(c[1]) for c in chats])
RECURSIVE total_chars(_)
total_chars(chats) ==
    IF chats = <<>> THEN 0 ELSE Head(chats).chars + total_chars(Tail(chats))

\* duration = int(total / 240)
chat_duration(chats) == total_chars(chats) \div CharsPerMinute

\* schedule_chat as it would be if the duration were the utterance count.
schedule_chat_by_count(ag, other, chats, start, duration) ==
    [ag EXCEPT
        !.chats = @ \o chats,
        !.action = TimedAction(
            FullEvent(ag.name, "duihua", other.name,
                      [text |-> "summary", at |-> start], ag.shown.address),
            start, Len(chats))]

\* Agent.schedule_chat(chats, summary, start, duration, other): the chats are
\* appended and revise_schedule installs the chat event as the action.
schedule_chat(ag, other, chats, start, duration) ==
    [ag EXCEPT
        !.chats = @ \o chats,
        !.action = TimedAction(
            FullEvent(ag.name, "duihua", other.name,
                      [text |-> "summary", at |-> start], ag.shown.address),
            start, duration)]

\* percept as it would be if an agent's own chat event were stored as an
\* "event" node.
node_type_event_only(ag, ev) == "event"

\* node_type = "chat" if event.fit(self.name, "duihua") else "event"
node_type_of(ag, ev) ==
    IF ev.subject = ag.name /\ ev.predicate = "duihua" THEN "chat" ELSE "event"

\* The describes of the recent event and chat nodes.
recent_nodes(ag) ==
    {n.describe : n \in SeqToSet(ag.memory.event) \cup SeqToSet(ag.memory.chat)}

\* One iteration of the loop of Agent.percept over the perceived events: p is
\* the poignancy the language model gives, ok whether the insert succeeds.
percept_event(ag, ev, p, ok, t) ==
    IF get_describe(ev) \in recent_nodes(ag) THEN ag
    ELSE IF ev.object \in {"idle", "kongxian"}
    THEN [ag EXCEPT !.concepts =
             Append(@, [id |-> "idle_", subject |-> ev.subject, poignancy |-> 1])]
    ELSE LET node_type == node_type_of(ag, ev)
             node == [describe |-> get_describe(ev), create |-> t, poignancy |-> p]
             stored == IF ok
                       THEN [ag EXCEPT !.memory[node_type] = <<node>> \o @]
                       ELSE ag
             got == add_concept(ok)
         IN  IF got.returned = "None" THEN stored
             ELSE [stored EXCEPT
                      !.poignancy = @ + p,
                      !.concepts = Append(@, [id |-> got.prefix,
                                              subject |-> ev.subject,
                                              poignancy |-> p])]

\* The events percept meets: the agent's own tile first (distance 0), then
\* the tiles of the other agents, which stand in its scope.
RECURSIVE percept_events(_, _, _)
percept_events(ag, evs, t) ==
    IF evs = <<>> THEN {ag}
    ELSE UNION {percept_events(percept_event(ag, Head(evs), p, ok, t), Tail(evs), t) :
                   p \in Poignancies, ok \in BOOLEAN}

\* Agent.percept(): the frame is rebuilt and the agent's own events are
\* filtered out of it at the end.
percept(ag, evs, t) ==
    {[r EXCEPT !.concepts = SelectSeq(@, LAMBDA c : c.subject # ag.name)] :
        r \in percept_events([ag EXCEPT !.concepts = <<>>], evs, t)}

InitChat ==
    /\ people = [a \in Agents |-> NewPerson(a)]
    /\ conversation = <<>>
    /\ chat_started = <<>>
    /\ chat_turn = [idx |-> 1, step |-> "think"]

\* Three agents stand together.
InitCrowd ==
    /\ people = [a \in Agents \cup {"a3"} |-> NewPerson(a)]
    /\ conversation = <<>>
    /\ chat_started = <<>>
    /\ chat_turn = [idx |-> 1, step |-> "think"]

IdleChat ==
    /\ people = [a \in Agents |-> NewPerson(a)]
    /\ conversation = <<>>
    /\ chat_started = <<>>
    /\ chat_turn = [idx |-> 0, step |-> "idle"]

\* The agents of the chat runs in the order in which the server lets them
\* think: the two agents of the town, or three when a third one stands by.
ChatAgents == DOMAIN people

ChatOrder == IF "a3" \in ChatAgents THEN AgentOrder \o <<"a3">> ELSE AgentOrder

\* The ticks a chat run is followed for.
ChatTicks == IF "a3" \in ChatAgents THEN MaxCrowdTicks ELSE MaxChatTicks

Thinker == ChatOrder[chat_turn.idx]

NextThinker == [idx |-> chat_turn.idx + 1, step |-> "think"]

\* Agent.think up to percept: move(coord, []) puts the agent's event on its
\* tile, make_schedule leaves a daily schedule, and an awake agent whose plan
\* is to sleep gets the sleeping action.  A sleeper only replaces a finished
\* action.
ChatThink ==
    /\ chat_turn.step = "think"
    /\ chat_turn.idx <= Len(ChatOrder)
    /\ \E sleeps \in BOOLEAN, d \in SleepMinutes :
         LET ag == people[Thinker]
             moved == [ag EXCEPT !.shown = ag.action.event, !.path = <<>>,
                                 !.schedule = TRUE]
             slept == IF sleeps /\ awake(moved)
                      THEN [moved EXCEPT !.action =
                               TimedAction(FullEvent(ag.name, "zhengzai", "shuijiao", NoDescribe, "bed"),
                                           now, d)]
                      ELSE moved
         IN  IF awake(slept)
             THEN /\ people' = [people EXCEPT ![Thinker] = slept]
                  /\ chat_turn' = [chat_turn EXCEPT !.step = "percept"]
             ELSE /\ people' = [people EXCEPT ![Thinker] =
                        IF action_finished(slept.action, now)
                        THEN [slept EXCEPT !.action =
                                 TimedAction(FullEvent(ag.name, "cishi", "activity",
                                     [text |-> "activity", at |-> -1], "desk"), now, 5)]
                        ELSE slept]
                  /\ chat_turn' = NextThinker
    /\ UNCHANGED <<outsideChat, clockVars, conversation, chat_started>>

\* Agent.percept().
ChatPercept ==
    /\ chat_turn.step = "percept"
    /\ LET others == SelectSeq(ChatOrder, LAMBDA n : n # Thinker)
           evs == <<people[Thinker].shown>> \o
                     [i \in 1..Len(others) |-> people[others[i]].shown]
       IN  \E r \in percept(people[Thinker], evs, now) :
               people' = [people EXCEPT ![Thinker] = r]
    /\ chat_turn' = [chat_turn EXCEPT !.step = "plan"]
    /\ UNCHANGED <<outsideChat, clockVars, conversation, chat_started>>

\* Agent.make_plan when _reaction focuses on another agent and _chat_with
\* goes through: the chat is held, logged under the tick's timestamp and
\* scheduled for both agents.
ChatStart ==
    /\ chat_turn.step = "plan"
    /\ \E b \in ChatAgents \ {Thinker}, c \in TextChars,
          first \in 0..Len(people[Thinker].memory.chat) :
         LET ag == people[Thinker]
             other == people[b]
         IN  /\ chat_with_guard(ag, other, now)
             /\ cooldown_over(ag, first, now)
             /\ \E chats \in chat_loop(Thinker, b, c, 0, <<>>) :
                  LET duration == chat_duration(chats)
                  IN  /\ conversation' = Append(conversation,
                            [key |-> now, initiator |-> Thinker, partner |-> b,
                             address |-> ag.action.event.address, chats |-> chats])
                      /\ people' = [people EXCEPT
                            ![Thinker] = schedule_chat(ag, other, chats, now, duration),
                            ![b] = schedule_chat(other, ag, chats, now, duration)]
                      /\ chat_started' = Append(chat_started,
                            [initiator |-> Thinker, partner |-> b, time |-> now,
                             schedules |-> <<ag.schedule, other.schedule>>,
                             events |-> <<ag.action.event, other.action.event>>,
                             paths |-> <<ag.path, other.path>>,
                             remembered |-> {n.create : n \in SeqToSet(ag.memory.chat)}])
    /\ chat_turn' = NextThinker
    /\ UNCHANGED <<outsideChat, clockVars>>

\* Agent.make_plan without a chat (no focus on another agent, a failed check
\* or decide_chat answering no): _wait_other installs the waiting action when
\* its checks pass and decide_wait answers yes; otherwise a finished action
\* is replaced by the next one.
ChatMakePlan ==
    /\ chat_turn.step = "plan"
    /\ \E b \in ChatAgents \ {Thinker}, decide_wait \in BOOLEAN :
         LET ag == people[Thinker]
         IN  people' = [people EXCEPT ![Thinker] =
               IF decide_wait /\ wait_other_guard(ag, people[b], now)
               THEN wait_other(ag, people[b], now)
               ELSE IF action_finished(ag.action, now)
               THEN [ag EXCEPT !.action =
                        TimedAction(FullEvent(ag.name, "cishi", "activity",
                            [text |-> "activity", at |-> -1], "desk"), now, 5)]
               ELSE ag]
    /\ chat_turn' = NextThinker
    /\ UNCHANGED <<outsideChat, clockVars, conversation, chat_started>>

\* SimulateServer.simulate after the agents' thinks: timer.forward(stride).
ChatTick ==
    /\ chat_turn.step = "think"
    /\ chat_turn.idx > Len(ChatOrder)
    /\ now + ChatStride < ChatTicks * ChatStride
    /\ now' = forward(now, ChatStride)
    /\ chat_turn' = [idx |-> 1, step |-> "think"]
    /\ UNCHANGED <<outsideChat, forwards, people, conversation, chat_started>>

NextChat ==
    \/ ChatThink
    \/ ChatPercept
    \/ ChatStart
    \/ ChatMakePlan
    \/ ChatTick

-----------------------------------------------------------------------------
(***************************************************************************)
(* Agent.percept and Agent.reflect of one agent over several ticks: each   *)
(* tick the agent perceives one new event of another agent and then runs   *)
(* reflect.                                                                *)
(***************************************************************************)
\* How many insights reflect_insights returns for the retrieved nodes.
Insights == {0, 1}

\* The two thoughts reflect derives from the chats.
ChatThoughts == 2

\* The event another agent shows at time t.
SeenEvent(t) ==
    FullEvent("a2", "cishi", "activity", [text |-> "activity", at |-> t], "desk")

\* _add_thought for each thought in turn: oks[i] tells whether the insert of
\* the i-th thought succeeds; the value _add_concept returns is not used.
RECURSIVE add_thoughts(_, _, _, _)
add_thoughts(ag, oks, p, t) ==
    IF oks = <<>> THEN ag
    ELSE LET node == [describe |-> [subject |-> ag.name, text |-> "thought", at |-> t],
                      create |-> t, poignancy |-> p]
             stored == IF Head(oks)
                       THEN [ag EXCEPT !.memory.thought = <<node>> \o @]
                       ELSE ag
         IN  add_thoughts(stored, Tail(oks), p, t)

\* The two early returns of Agent.reflect.
reflect_runs(ag) ==
    /\ ~(ag.poignancy < PoignancyMax)
    /\ ag.memory.event \o ag.memory.thought # <<>>

\* Agent.reflect(): n insights and the two chat thoughts are added, then the
\* poignancy is reset.
reflect(ag, oks, p, t) ==
    IF ~reflect_runs(ag) THEN ag
    ELSE [add_thoughts(ag, oks, p, t) EXCEPT !.poignancy = 0]

InitReflect ==
    /\ people = [a \in Agents |-> NewPerson(a)]
    /\ conversation = <<>>
    /\ chat_started = <<>>
    /\ chat_turn = [idx |-> 1, step |-> "percept"]
    /\ percept_sum = 0

IdleReflect == percept_sum = 0

\* Agent.percept() with one new event of another agent in scope.
ReflectPercept ==
    /\ chat_turn.step = "percept"
    /\ \E p \in Poignancies, ok \in BOOLEAN :
         LET ag == people[Thinker]
             r == percept_event([ag EXCEPT !.concepts = <<>>], SeenEvent(now), p, ok, now)
         IN  /\ people' = [people EXCEPT ![Thinker] =
                    [r EXCEPT !.concepts = SelectSeq(@, LAMBDA c : c.subject # ag.name)]]
             /\ percept_sum' = percept_sum + p
    /\ chat_turn' = [chat_turn EXCEPT !.step = "reflect"]
    /\ UNCHANGED <<outsideReflect, clockVars, conversation, chat_started>>

\* Agent.reflect().
ReflectRun ==
    /\ chat_turn.step = "reflect"
    /\ \E n \in Insights, p \in Poignancies :
         \E oks \in [1..(n + ChatThoughts) -> BOOLEAN] :
             people' = [people EXCEPT ![Thinker] = reflect(@, oks, p, now)]
    /\ percept_sum' = IF reflect_runs(people[Thinker]) THEN 0 ELSE percept_sum
    /\ chat_turn' = [chat_turn EXCEPT !.step = "tick"]
    /\ UNCHANGED <<outsideReflect, clockVars, conversation, chat_started>>

\* The server moves the clock on to the next tick.
ReflectTick ==
    /\ chat_turn.step = "tick"
    /\ now + ChatStride < MaxReflectTicks * ChatStride
    /\ now' = forward(now, ChatStride)
    /\ chat_turn' = [chat_turn EXCEPT !.step = "percept"]
    /\ UNCHANGED <<outsideReflect, forwards, people, conversation, chat_started, percept_sum>>

NextReflect ==
    \/ ReflectPercept
    \/ ReflectRun
    \/ ReflectTick

-----------------------------------------------------------------------------
(***************************************************************************)
(* The activity terminals: Agent._execute_special_action and its three     *)
(* handlers, called by think for one agent over several ticks.             *)
(***************************************************************************)
Kinds == {"painting", "music", "quantum"}

\* The last element of the address of each terminal, and a place without one.
Terminal == [painting |-> "easel", music |-> "synth", quantum |-> "simulator"]

Places == {Terminal[k] : k \in Kinds} \cup {"desk"}

\* datetime.timedelta(hours=1), in minutes.
HourLimit == 60

SpecialDurations == {30, 120}

SpecialSteps == {10, 50}

\* planned_end_time - self.last_<kind>_time < timedelta(hours=1)
throttled(last, action, t) ==
    last # -1 /\ (action.start + action.duration) - last < HourLimit

\* The kind of handler _execute_special_action calls at time t ("none" when
\* it returns before): the action is not finished, has begun, and the agent
\* stands at the terminal of its event's address.
special_kind(action, arrived, t) ==
    IF action_finished(action, t) THEN "none"
    ELSE IF t < action.start THEN "none"
    ELSE IF ~arrived THEN "none"
    ELSE IF \E k \in Kinds : Terminal[k] = action.event.address
    THEN CHOOSE k \in Kinds : Terminal[k] = action.event.address
    ELSE "none"

InitSpecial ==
    /\ special_action = TimedAction(FullEvent("a1", "cishi", "kongxian", NoDescribe, "desk"), 0, 0)
    /\ last_time = [k \in Kinds |-> -1]
    /\ records = <<>>
    /\ ticked = [time |-> -1, kind |-> "none"]

IdleSpecial == InitSpecial

\* Agent.think at one tick: _execute_special_action on the current action,
\* then make_plan replaces a finished action by the next one.
SpecialThink ==
    /\ ticked.time # now
    /\ \E arrived \in BOOLEAN, place \in Places, d \in SpecialDurations :
         LET kind == special_kind(special_action, arrived, now)
             stamp == special_action.start + special_action.duration
             runs == kind # "none" /\ ~throttled(last_time[kind], special_action, now)
         IN  /\ ticked' = [time |-> now, kind |-> kind]
             /\ last_time' = IF runs THEN [last_time EXCEPT ![kind] = stamp]
                             ELSE last_time
             /\ records' = IF runs
                           THEN Append(records, [kind |-> kind, tick |-> now, stamp |-> stamp])
                           ELSE records
             /\ special_action' =
                    IF action_finished(special_action, now)
                    THEN TimedAction(FullEvent("a1", "cishi", "activity", NoDescribe, place),
                                     now, d)
                    ELSE special_action
    /\ UNCHANGED <<outsideSpecial, clockVars>>

\* The server moves the clock on between two thinks.
SpecialForward ==
    /\ ticked.time = now
    /\ forwards < MaxSpecialForward
    /\ \E s \in SpecialSteps : now' = forward(now, s)
    /\ forwards' = forwards + 1
    /\ UNCHANGED <<outsideSpecial, specialVars>>

NextSpecial ==
    \/ SpecialThink
    \/ SpecialForward

-----------------------------------------------------------------------------
(***************************************************************************)
(* compress.generate_movement: the checkpoint files of steps 1, 2, ... are *)
(* read in order and every agent's way to its checkpoint coordinate is     *)
(* spread over the frames of the step.                                     *)
(***************************************************************************)
\* The coordinates the agents have in the checkpoint files; the first lies
\* on the border of the maze.
TargetCoords == {<<0, 1>>, <<1, 1>>, <<1, 2>>, <<2, 2>>}

NoFrame == [a \in Agents |-> NoCoord]

\* step_key as it would be without the offset of frame 0.
step_key_from_zero(step, i) == (step - 1) * FramesPerStep + i

\* step_key = (step - 1) * frames_per_step + 1 + i
step_key(step, i) == (step - 1) * FramesPerStep + 1 + i

\* source_coord as it would be if every path began at the checkpoint's own
\* coordinate.
source_of_checkpoint(last, frames, name, coord) == coord

\* source_coord: the last location written, else frame 0, else the
\* checkpoint's coordinate.
source_of(last, frames, name, coord) ==
    IF last[name] # NoCoord THEN last[name]
    ELSE IF frames[0][name] # NoCoord THEN frames[0][name]
    ELSE coord

\* The frames of one step for one agent: frame i holds path[i + 1] as long as
\* the path has points; every key of the step is created.
RECURSIVE write_frames(_, _, _, _, _)
write_frames(frames, name, step, path, i) ==
    IF i >= FramesPerStep THEN frames
    ELSE LET key == step_key(step, i)
             had == IF key \in DOMAIN frames THEN frames[key] ELSE NoFrame
             entry == IF i < Len(path) THEN [had EXCEPT ![name] = path[i + 1]] ELSE had
         IN  write_frames([k \in DOMAIN frames \cup {key} |->
                              IF k = key THEN entry ELSE frames[k]],
                          name, step, path, i + 1)

InitMovement ==
    /\ all_movement = [k \in {0} |-> NoFrame]
    /\ last_location = [a \in Agents |-> NoCoord]
    /\ gen = [step |-> 1, idx |-> 1, pc |-> "run"]
    /\ walked = <<>>

IdleMovement ==
    /\ all_movement = [k \in {0} |-> NoFrame]
    /\ last_location = [a \in Agents |-> NoCoord]
    /\ gen = [step |-> 0, idx |-> 0, pc |-> "idle"]
    /\ walked = <<>>

\* The body of "for agent_name, agent_data in agents.items()" for the
\* checkpoint file of the current step.
GenAgent ==
    /\ gen.pc = "run"
    /\ gen.step <= MaxCheckpoints
    /\ \E coord \in TargetCoords, located \in BOOLEAN :
         LET name == AgentOrder[gen.idx]
             frames0 == IF gen.step = 1
                        THEN [all_movement EXCEPT ![0][name] = StaticCoord(name)]
                        ELSE all_movement
             source == source_of(last_location, frames0, name, coord)
             found == IF located THEN find_path(collision, source, coord)
                      ELSE [outcome |-> "return", path |-> <<source>>]
         IN  IF found.outcome = "return"
             THEN /\ all_movement' = write_frames(frames0, name, gen.step, found.path, 0)
                  /\ last_location' = [last_location EXCEPT ![name] =
                         found.path[Min(Len(found.path), FramesPerStep)]]
                  /\ walked' = Append(walked, [step |-> gen.step, name |-> name,
                                               path |-> found.path])
                  /\ gen' = IF gen.idx < Len(AgentOrder)
                            THEN [gen EXCEPT !.idx = @ + 1]
                            ELSE [gen EXCEPT !.idx = 1, !.step = @ + 1]
             ELSE /\ all_movement' = frames0
                  /\ gen' = [gen EXCEPT !.pc = IF found.outcome = "raise"
                                               THEN "crashed" ELSE "hung"]
                  /\ UNCHANGED <<last_location, walked>>
    /\ UNCHANGED <<outsideMovement, clockVars>>

\* After the last checkpoint file the result is written to movement.json.
GenWrite ==
    /\ gen.pc = "run"
    /\ gen.idx = 1
    /\ gen.step > 1
    /\ gen' = [gen EXCEPT !.pc = "done"]
    /\ UNCHANGED <<outsideMovement, clockVars, all_movement, last_location, walked>>

NextMovement ==
    \/ GenAgent
    \/ GenWrite

-----------------------------------------------------------------------------
(***************************************************************************)
(* Actions and their serialisation (modules/memory/action.py, event.py).   *)
(* A date is [min, sec, usec]: minutes since the start of the simulation   *)
(* and the part below the minute.  The text of a date is <<min, sec>>.     *)
(***************************************************************************)
DefaultPredicate == "at_this_time"   \* the default predicate of Event.__init__
DefaultObject == "idle"              \* the default object of Event.__init__

\* The date of the timer: whole minutes.
get_date(t) == [min |-> t, sec |-> 0, usec |-> 0]

\* start.strftime("%Y%m%d-%H:%M:%S"): the part below the second is dropped.
strftime(d) == <<d.min, d.sec>>

\* utils.to_date(text) reads minutes and seconds back.
to_date(text) == [min |-> text[1], sec |-> text[2], usec |-> 0]

\* date + datetime.timedelta(minutes=duration)
plus_minutes(d, duration) == [d EXCEPT !.min = @ + duration]

\* Event.__init__: empty predicate, object, describe, address and emoji get
\* their defaults.
new_event(subject, predicate, object, address, describe, emoji) ==
    [subject |-> subject,
     predicate |-> IF predicate = "" THEN DefaultPredicate ELSE predicate,
     object |-> IF object = "" THEN DefaultObject ELSE object,
     describe |-> describe,
     address |-> address,
     emoji |-> emoji]

\* Event.to_dict (the keys are those of the constructor's parameters).
event_to_dict(e) ==
    [subject |-> e.subject, predicate |-> e.predicate, object |-> e.object,
     describe |-> e.describe, address |-> e.address, emoji |-> e.emoji]

\* Event.from_dict: cls(**config)
event_from_dict(d) ==
    new_event(d.subject, d.predicate, d.object, d.address, d.describe, d.emoji)

\* No object event (None) and no start argument (None).
NoObjEvent == new_event("", "", "", <<>>, "", "")
NoStart == [min |-> -1, sec |-> 0, usec |-> 0]
NoAction == [event |-> NoObjEvent, obj_event |-> NoObjEvent, start |-> NoStart,
             duration |-> 0, end |-> NoStart]
NoDict == [event |-> event_to_dict(NoObjEvent), obj_event |-> event_to_dict(NoObjEvent),
           start |-> <<-1, 0>>, duration |-> 0]

\* Action.__init__: start defaults to the timer's date, end = start + duration.
new_action(event, obj_event, start, duration, t) ==
    LET s == IF start = NoStart THEN get_date(t) ELSE start
    IN  [event |-> event, obj_event |-> obj_event, start |-> s,
         duration |-> duration, end |-> plus_minutes(s, duration)]

\* Action.to_dict
action_to_dict(a) ==
    [event |-> event_to_dict(a.event),
     obj_event |-> IF a.obj_event # NoObjEvent THEN event_to_dict(a.obj_event)
                   ELSE event_to_dict(NoObjEvent),
     start |-> strftime(a.start),
     duration |-> a.duration]

\* Action.from_dict as it would be if the object event were not restored.
action_from_dict_without_object(d, t) ==
    new_action(event_from_dict(d.event), NoObjEvent, to_date(d.start), d.duration, t)

\* Action.from_dict
action_from_dict(d, t) ==
    new_action(event_from_dict(d.event),
               IF d.obj_event # event_to_dict(NoObjEvent)
               THEN event_from_dict(d.obj_event) ELSE NoObjEvent,
               to_date(d.start), d.duration, t)

\* The events, starts and durations of the actions the agents are given.
ActionEvents ==
    {new_event("a1", p, o, addr, "", e) :
        p \in {"", "sleeps"}, o \in {"", "bed"},
        addr \in {<<>>, <<"home", "bed">>}, e \in {"", "zzz"}}
ObjectEvents ==
    {NoObjEvent, new_event("bed", "", "", <<"home", "bed">>, "", ""),
     new_event("bed", "used_by", "a1", <<"home", "bed">>, "", "zzz")}
CarriedDurations == {0, 5, 60}

InitAction ==
    /\ carried = NoAction
    /\ action_dict = NoDict
    /\ loaded = NoAction

IdleAction == InitAction

\* An agent is given a new action: at its construction, when it falls
\* asleep, by _determine_action or by revise_schedule.
ActNew ==
    /\ \E event \in ActionEvents, obj_event \in ObjectEvents,
          start \in {NoStart} \cup {get_date(m) : m \in {now, now - (now % 60)}},
          duration \in CarriedDurations :
         carried' = new_action(event, obj_event, start, duration, now)
    /\ action_dict' = NoDict
    /\ loaded' = NoAction
    /\ UNCHANGED <<outsideAction, clockVars>>

\* Agent.to_dict writes the action into the checkpoint.
ActSave ==
    /\ carried # NoAction
    /\ action_dict' = action_to_dict(carried)
    /\ UNCHANGED <<outsideAction, clockVars, carried, loaded>>

\* Agent.__init__ reads the action back from the checkpoint.
ActLoad ==
    /\ action_dict # NoDict
    /\ loaded' = action_from_dict(action_dict, now)
    /\ UNCHANGED <<outsideAction, clockVars, carried, action_dict>>

\* The timer goes forward.
ActForward ==
    /\ forwards < MaxActionForward
    /\ now' = timer_forward(now, ChatStride)
    /\ forwards' = forwards + 1
    /\ UNCHANGED <<outsideAction, actionVars>>

NextAction ==
    \/ ActNew
    \/ ActSave
    \/ ActLoad
    \/ ActForward

-----------------------------------------------------------------------------
(***************************************************************************)
(* The specifications.                                                     *)
(***************************************************************************)
InitClock == now = 0 /\ forwards = 0

NextMaze == CallFindPath

StartMaze == InitMaze /\ InitClock /\ IdleAssoc /\ IdleSched /\ IdleSim /\ IdleLLM /\ IdleChat /\ IdleReflect /\ IdleSpecial /\ IdleMovement /\ IdleAction

SpecMaze == StartMaze /\ [][NextMaze]_vars

StartAssoc == InitAssoc /\ InitClock /\ IdleMaze /\ IdleSched /\ IdleSim /\ IdleLLM /\ IdleChat /\ IdleReflect /\ IdleSpecial /\ IdleMovement /\ IdleAction

SpecAssoc == StartAssoc /\ [][NextAssoc]_vars

\* The associative memory under add_node calls with and without an explicit
\* create time, evictions, cleanup_index and the moving clock.
NextAssocAt ==
    \/ AssocAddNode
    \/ AssocAddNodeAt
    \/ AssocCleanup
    \/ AssocForward

StartAssocAt == InitAssoc /\ InitClock /\ IdleMaze /\ IdleSched /\ IdleSim /\ IdleLLM /\ IdleChat /\ IdleReflect /\ IdleSpecial /\ IdleMovement /\ IdleAction

SpecAssocAt == StartAssocAt /\ [][NextAssocAt]_vars

StartSched == InitSched /\ InitClock /\ IdleAssoc /\ IdleMaze /\ IdleSim /\ IdleLLM /\ IdleChat /\ IdleReflect /\ IdleSpecial /\ IdleMovement /\ IdleAction

SpecSched == StartSched /\ [][NextSched]_vars

StartLLM == InitLLM /\ InitClock /\ IdleMaze /\ IdleAssoc /\ IdleSched /\ IdleSim /\ IdleChat /\ IdleReflect /\ IdleSpecial /\ IdleMovement /\ IdleAction

SpecLLM == StartLLM /\ [][NextLLM]_vars

StartChat == InitChat /\ InitClock /\ IdleMaze /\ IdleAssoc /\ IdleSched /\ IdleSim /\ IdleLLM /\ IdleReflect /\ IdleSpecial /\ IdleMovement /\ IdleAction

SpecChat == StartChat /\ [][NextChat]_vars

StartSim == InitSim /\ IdleAssoc /\ IdleSched /\ IdleLLM /\ IdleChat /\ IdleReflect /\ IdleSpecial /\ IdleMovement /\ IdleAction

SpecSim == StartSim /\ [][NextSim]_vars


StartReflect == InitReflect /\ InitClock /\ IdleMaze /\ IdleAssoc /\ IdleSched /\ IdleSim /\ IdleLLM /\ IdleSpecial /\ IdleMovement /\ IdleAction

SpecReflect == StartReflect /\ [][NextReflect]_vars


StartSpecial == InitSpecial /\ InitClock /\ IdleMaze /\ IdleAssoc /\ IdleSched /\ IdleSim /\ IdleLLM /\ IdleChat /\ IdleReflect /\ IdleMovement /\ IdleAction

SpecSpecial == StartSpecial /\ [][NextSpecial]_vars


StartMovement == InitMovement /\ InitClock /\ IdleMaze /\ IdleAssoc /\ IdleSched /\ IdleSim /\ IdleLLM /\ IdleChat /\ IdleReflect /\ IdleSpecial /\ IdleAction

SpecMovement == StartMovement /\ [][NextMovement]_vars


StartAction == InitAction /\ InitClock /\ IdleMaze /\ IdleAssoc /\ IdleSched /\ IdleSim /\ IdleLLM /\ IdleChat /\ IdleReflect /\ IdleSpecial /\ IdleMovement

SpecAction == StartAction /\ [][NextAction]_vars


StartCrowd == InitCrowd /\ InitClock /\ IdleMaze /\ IdleAssoc /\ IdleSched /\ IdleSim /\ IdleLLM /\ IdleReflect /\ IdleSpecial /\ IdleMovement /\ IdleAction

SpecCrowd == StartCrowd /\ [][NextChat]_vars

-----------------------------------------------------------------------------
(***************************************************************************)
(* Properties of the pathfinder.                                           *)
(***************************************************************************)
Adjacent4(a, b) ==
    \/ a[1] = b[1] /\ (a[2] - b[2] = 1 \/ b[2] - a[2] = 1)
    \/ a[2] = b[2] /\ (a[1] - b[1] = 1 \/ b[1] - a[1] = 1)

\* The tiles reachable from the set S over 4-connected non-collision tiles.
RECURSIVE Closure(_, _)
Closure(coll, S) ==
    LET S2 == S \cup {c \in Coords \ coll : \E s \in S : Adjacent4(s, c)}
    IN  IF S2 = S THEN S ELSE Closure(coll, S2)

Reachable(coll, src, dst) == src \notin coll /\ dst \in Closure(coll, {src})

\* p is a list from src to dst, consecutive tiles 4-adjacent, none a collision tile.
IsWalk(coll, src, dst, p) ==
    /\ Len(p) >= 1
    /\ p[1] = src
    /\ p[Len(p)] = dst
    /\ \A i \in 1..(Len(p) - 1) : Adjacent4(p[i], p[i + 1])
    /\ \A i \in 1..Len(p) : p[i] \in Coords \ coll

Called == path_result.outcome # "none"

\* C3: for every src and every dst reachable from src over 4-connected
\* non-collision tiles (border tiles included), find_path terminates and
\* returns a list from src to dst whose consecutive tiles are 4-adjacent and
\* which contains no collision tile.
C3_PathValidWhenReachable ==
    (Called /\ Reachable(collision, src_coord, dst_coord))
        => /\ path_result.outcome = "return"
           /\ IsWalk(collision, src_coord, dst_coord, path_result.path)

\* C4: when dst is not reachable from src over walkable tiles, find_path
\* terminates and returns the empty list.
C4_EmptyWhenUnreachable ==
    (Called /\ ~Reachable(collision, src_coord, dst_coord))
        => /\ path_result.outcome = "return"
           /\ path_result.path = <<>>

-----------------------------------------------------------------------------
(***************************************************************************)
(* Properties of the associative memory.                                   *)
(***************************************************************************)
\* C9: with max_memory = M > 0, after n successful add_node calls of one
\* type, memory[type] holds exactly the min(n, M) most recently added ids of
\* that type (stated while no node can have expired: the clock has not moved).
C9_MemoryHoldsMostRecent ==
    (max_memory > 0 /\ forwards = 0)
        => \A t \in NodeTypes : memory[t] = Take(added[t], max_memory)

\* The stored node of an id, and the create times of a type list.
NodeOf(id) == CHOOSE d \in docs : d.id = id

ListedInStore == \A t \in NodeTypes : SeqToSet(memory[t]) \subseteq DocIds(docs)

\* C11 (as stated): after any sequence of add_node (with or without an
\* explicit create time), evictions and cleanup_index, every type list is
\* ordered newest-first: create at index i >= create at index i + 1.
C11_AsStated ==
    /\ ListedInStore
    /\ \A t \in NodeTypes : \A i \in 1..(Len(memory[t]) - 1) :
          NodeOf(memory[t][i]).create >= NodeOf(memory[t][i + 1]).create

\* C11: the nodes of a type list that were added without an explicit create
\* time are ordered newest-first among themselves, whatever add_node calls,
\* evictions and cleanup_index calls happened.
C11_NewestFirstByClock ==
    /\ ListedInStore
    /\ \A t \in NodeTypes : \A i, j \in 1..Len(memory[t]) :
          (i < j /\ ~NodeOf(memory[t][i]).given /\ ~NodeOf(memory[t][j]).given)
              => NodeOf(memory[t][i]).create >= NodeOf(memory[t][j]).create

\* Two nodes added at different clock times, without an explicit create
\* time, are in one type list.
C11_Witness ==
    /\ ListedInStore
    /\ \E t \in NodeTypes : \E i, j \in 1..Len(memory[t]) :
          /\ i < j
          /\ ~NodeOf(memory[t][i]).given /\ ~NodeOf(memory[t][j]).given
          /\ NodeOf(memory[t][i]).create > NodeOf(memory[t][j]).create

\* C12: immediately after cleanup_index at time now, every node still in
\* the store and in the type lists satisfies create <= now <= expire, and
\* every node with create > now or expire < now is gone from the store and
\* from its type list.
C12_CleanupKeepsLiveNodes ==
    [][AssocCleanup =>
         /\ \A d \in docs' : d.create <= now' /\ now' <= d.expire
         /\ \A t \in NodeTypes : SeqToSet(memory'[t]) \subseteq DocIds(docs')
         /\ \A d \in docs :
              (d.create > now \/ d.expire < now)
                  => /\ d.id \notin DocIds(docs')
                     /\ \A t \in NodeTypes : d.id \notin SeqToSet(memory'[t])
      ]_vars

\* With no capacity limit (so nothing is evicted), cleanup_index has removed
\* a node that was added, and another node survives it.
C12_Witness ==
    /\ max_memory = -1
    /\ docs # {}
    /\ \E t \in NodeTypes : \E i \in 1..Len(added[t]) :
          /\ added[t][i] \notin DocIds(docs)
          /\ added[t][i] \notin SeqToSet(memory[t])

\* C13: when the insert fails in every retry, add_node leaves every type
\* list unchanged and _add_concept returns a transient concept whose id
\* starts with "tmp_" (so it is not in the store); when the insert succeeds,
\* _add_concept returns the persisted concept.
C13_AddConceptReturnsConcept ==
    /\ [](concept.called =>
            /\ concept.returned = "Concept"
            /\ concept.prefix = (IF concept.inserted THEN "node_" ELSE "tmp_"))
    /\ [][AssocAddNodeFails => memory' = memory]_vars

\* C10: the set of node ids in the vector store equals the union of the
\* three memory type lists.
C10_StoreEqualsLists ==
    DocIds(docs) = UNION {SeqToSet(memory[t]) : t \in NodeTypes}

-----------------------------------------------------------------------------
(***************************************************************************)
(* Properties of the daily schedule.                                       *)
(***************************************************************************)
\* The plans start at minute 0, each starts exactly where the previous one
\* ends, the starts increase strictly and the last plan ends at minute 1440.
TilesTheDay(ds) ==
    /\ ds # <<>>
    /\ ds[1].start = 0
    /\ \A i \in 1..(Len(ds) - 1) :
          /\ ds[i].start < ds[i + 1].start
          /\ ds[i + 1].start = plan_end(ds[i])
    /\ plan_end(Last(ds)) = DayMinutes

\* C5: after every make_schedule that generates a schedule, on the first
\* day and on every later day, daily_schedule starts at minute 0, has
\* strictly increasing contiguous starts and covers exactly [0, 1440).
C5_ScheduleTilesTheDay ==
    daily_schedule # <<>> => TilesTheDay(daily_schedule)

-----------------------------------------------------------------------------
(***************************************************************************)
(* Properties of the simulation server and the town (SpecSim).             *)
(***************************************************************************)

\* C1: Agent.think terminates and returns a plan in every reachable state and
\* for every outcome of the LLM and of pathfinding: the server never ends up
\* with an exception that escaped think, nor blocked in a think that does
\* not return.
C1_ThinkAlwaysReturns == pc \notin {"crashed", "hung"}

\* How many events of a tile have the agent's name as their subject.
EventsOf(c, a) == Cardinality({i \in 1..Len(tiles[c]) : tiles[c][i].subject = a})

\* C2: in every reachable state each tile holds at most one event whose
\* subject is a given agent's name.
C2_OneEventPerAgentPerTile ==
    \A c \in Coords : \A a \in Agents : EventsOf(c, a) <= 1

\* Both agents were teleported to the same tile to sleep: the tile holds a
\* sleeping event of each.
C2_Witness ==
    \E c \in Coords :
        /\ \E i \in 1..Len(tiles[c]) :
              tiles[c][i].subject = "a1" /\ tiles[c][i].predicate = "sleeping"
        /\ \E j \in 1..Len(tiles[c]) :
              tiles[c][j].subject = "a2" /\ tiles[c][j].predicate = "sleeping"

\* The server was resumed and is about to make the first agent think.
JustResumed ==
    /\ resumed
    /\ pc = "think"
    /\ step_i = start_step
    /\ think_idx = 1
    /\ thinkers = {}

\* C6: after a resume from the latest checkpoint every agent's state equals
\* the state recorded in that checkpoint: the coord the server feeds to the
\* first think, the action, the schedule and the memory type lists.
C6_ResumedStateEqualsCheckpoint ==
    JustResumed =>
        \A name \in Agents :
            /\ agent_status[name].coord = latest.agents[name].coord
            /\ agents[name].action = latest.agents[name].action
            /\ agents[name].scheduled = latest.agents[name].scheduled
            /\ agents[name].has_memory = latest.agents[name].has_memory

\* The k-th checkpoint of the whole history is the k-th tick of an
\* uninterrupted run with stride s: a new file that records step k and the
\* time StartTime + (k-1)*s.
ContinuesTickSequence(s) ==
    \A k \in 1..Len(log) :
        /\ log[k].time = StartTime + (k - 1) * s
        /\ log[k].step = k
        /\ log[k].new_file

\* C7: when every invocation uses the same stride s > 0, a run interrupted
\* after k ticks and resumed from the latest checkpoint continues the tick
\* sequence of an uninterrupted run: the first resumed tick has the time of
\* the last checkpoint plus s and the next step number, no tick time is
\* skipped or repeated and no earlier checkpoint file is overwritten.
C7_ResumeContinuesTicks ==
    (strides_used = {stride} /\ stride > 0) => ContinuesTickSequence(stride)

\* A run with a positive stride was interrupted after its first tick, was
\* resumed with the same stride and has written a checkpoint since.
C7_Witness ==
    /\ stride > 0
    /\ strides_used = {stride}
    /\ Len(log) = 2
    /\ ~log[1].resumed
    /\ log[2].resumed

\* C7 as stated, for every stride: each tick of a resumed run follows the
\* last checkpoint by its stride and step, repeats no earlier tick time and
\* overwrites no earlier checkpoint file.
C7_AsStated ==
    \A k \in 2..Len(log) :
        log[k].resumed =>
            /\ log[k].step = log[k - 1].step + 1
            /\ \A j \in 1..(k - 1) : log[j].time # log[k].time
            /\ log[k].new_file

\* C8: in a run started at StartTime with stride s > 0 the k-th tick makes
\* every agent think at StartTime + (k-1)*s and writes one new checkpoint
\* with step k and that time before the clock advances; after n ticks the
\* clock reads StartTime + n*s, there are n checkpoint files, and the clock
\* never decreases.
C8_TicksOfOneRun ==
    /\ []((~resumed /\ stride > 0) =>
            /\ ContinuesTickSequence(stride)
            /\ \A k \in 1..Len(log) :
                  log[k].thinkers = {[name |-> a, time |-> log[k].time] : a \in Agents}
            /\ Cardinality(DOMAIN files) = Len(log)
            /\ now = StartTime + step_i * stride
            /\ pc = "forward" => Len(log) = step_i + 1
            /\ pc \in {"think", "checkpoint", "done"} => Len(log) = step_i)
    /\ [][(~resumed /\ ~resumed' /\ stride > 0) => now' >= now]_vars

\* A first run with a positive stride has completed two ticks.
C8_Witness ==
    /\ ~resumed
    /\ stride > 0
    /\ pc = "done"
    /\ Len(log) = 2
    /\ now = StartTime + 2 * stride

-----------------------------------------------------------------------------
(***************************************************************************)
(* Properties of the language model wrapper (SpecLLM).                     *)
(***************************************************************************)
\* C14: completion calls the provider at most retry times, makes no further
\* attempt after the first one that yields a parsed result, and when no
\* attempt yields one it returns the failsafe (it has no raising exit).
C14_BoundedRetriesThenFailsafe ==
    /\ completion.tries <= completion.retry
    /\ ~completion.stale
    /\ completion.pc = "after" =>
          (completion.response # None \/ completion.tries = completion.retry)
    /\ (completion.pc = "idle" /\ completion.tries > 0 /\ completion.response = None)
          => returned = "failsafe"

\* A call with the default retry count has used all its attempts without a
\* parsed result and has returned the failsafe.
C14_Witness ==
    /\ completion.pc = "idle"
    /\ completion.retry = LlmRetryDefault
    /\ completion.tries = LlmRetryDefault
    /\ completion.response = None
    /\ returned = "failsafe"

RECURSIVE SumOver(_, _)
SumOver(sm, tags) ==
    IF tags = {} THEN <<0, 0, 0>>
    ELSE LET c == CHOOSE x \in tags : TRUE
             r == SumOver(sm, tags \ {c})
         IN  <<sm[c][1] + r[1], sm[c][2] + r[2], sm[c][3] + r[3]>>

\* C15: for every caller tag, successes + failures = the number of
\* completion calls made with that tag (that have ended), the counted
\* requests are at most the retry budget of the calls made with it, and
\* "total" is the component-wise sum over the caller tags.
C15_SummaryCounts ==
    /\ \A c \in DOMAIN summary \ {"total"} :
          /\ summary[c][2] + summary[c][3] = calls[c][2]
          /\ summary[c][1] <= calls[c][3]
    /\ \A c \in Callers : c \notin DOMAIN summary => calls[c] = <<0, 0, 0>>
    /\ summary["total"] = SumOver(summary, DOMAIN summary \ {"total"})

\* Calls with both tags have ended, one counted as a success and one as a
\* failure.
C15_Witness ==
    /\ completion.pc = "idle"
    /\ DOMAIN summary = Callers \cup {"total"}
    /\ summary["total"][2] = 1
    /\ summary["total"][3] = 1
    /\ summary["total"][1] >= 2

-----------------------------------------------------------------------------
(***************************************************************************)
(* Properties of the chat protocol (SpecChat).                             *)
(***************************************************************************)
\* An event that is a sleeping, a waiting or a not-yet-started event.
SleepingOrWaiting(event) ==
    \/ get_describe(event).text \in {"sleeping", "shuijiao"}
    \/ event.predicate \in {"waiting to start", "daikaishi"}

C17_ChatCooldown ==
    /\ \A i, j \in 1..Len(chat_started) :
         LET e == chat_started[i]
             f == chat_started[j]
         IN  {e.initiator, e.partner} = {f.initiator, f.partner}
                 => ~(e.time < f.time /\ f.time < e.time + CooldownMinutes)
    /\ \A i \in 1..Len(chat_started) :
         \A c \in chat_started[i].remembered :
             chat_started[i].time - c >= CooldownMinutes


\* The chat committed by the step, when the step commits one.
Committed == chat_started'[Len(chat_started')]

Logged == conversation'[Len(conversation')]

\* C18: when a chat between A and B ends in the tick with timestamp t, the
\* conversation log gains exactly one entry under key t with the header
\* A -> B @ address holding the utterances, the entries logged before keep
\* their order, the same utterances are appended to the chats of A and of B,
\* and both agents' actions become chat events with the same start and with
\* duration = floor(total utterance characters / 240) minutes.
C18_ChatCommit ==
    [][Len(chat_started') > Len(chat_started) =>
        LET A == Committed.initiator
            B == Committed.partner
            total == total_chars(Logged.chats)
        IN  /\ Len(conversation') = Len(conversation) + 1
            /\ SubSeq(conversation', 1, Len(conversation)) = conversation
            /\ Logged.key = now
            /\ Logged.initiator = A
            /\ Logged.partner = B
            /\ A # B
            /\ Logged.address = people[A].action.event.address
            /\ Logged.chats # <<>>
            /\ \A x \in {A, B} :
                 /\ people'[x].chats = people[x].chats \o Logged.chats
                 /\ people'[x].action.event.predicate = "duihua"
                 /\ people'[x].action.event.subject = x
                 /\ people'[x].action.event.object \in {A, B} \ {x}
                 /\ people'[x].action.start = now
                 /\ people'[x].action.duration * CharsPerMinute <= total
                 /\ total < (people'[x].action.duration + 1) * CharsPerMinute]_vars

\* A chat of 240 characters has been committed: both agents hold its four
\* utterances and a chat action of one minute.
C18_Witness ==
    /\ Len(conversation) >= 1
    /\ LET entry == conversation[Len(conversation)]
       IN  /\ total_chars(entry.chats) >= CharsPerMinute
           /\ \A a \in Agents :
                /\ people[a].chats = entry.chats
                /\ people[a].action.event.predicate = "duihua"
                /\ people[a].action.start = entry.key
                /\ people[a].action.duration = 1


\* The agent's event on its tile is its own chat event.
ShowsOwnChat(a) ==
    /\ people[a].shown.subject = a
    /\ people[a].shown.predicate = "duihua"

\* The step is the percept of agent a.
PerceptOf(a) ==
    /\ chat_turn.step = "percept"
    /\ chat_turn'.step = "plan"
    /\ a = Thinker

NewNodes(before, after) == SubSeq(after, 1, Len(after) - Len(before))

RECURSIVE SumPoignancy(_)
SumPoignancy(nodes) ==
    IF nodes = <<>> THEN 0
    ELSE Head(nodes).poignancy + SumPoignancy(Tail(nodes))

\* C20: after Agent.percept, status.poignancy has increased by exactly the
\* sum of the poignancy values of the new non-idle events that percept
\* inserted into memory in this tick, and each of those concepts is part of
\* the percept frame unless its subject is the agent itself.
C20_PoignancyOfInserted ==
    [][\A a \in Agents :
        PerceptOf(a) =>
            LET inserted == NewNodes(people[a].memory.event, people'[a].memory.event)
                              \o NewNodes(people[a].memory.chat, people'[a].memory.chat)
            IN  /\ people'[a].poignancy
                       = people[a].poignancy + SumPoignancy(inserted)
                /\ \A i \in 1..Len(inserted) :
                     inserted[i].describe.subject # a =>
                         \E j \in 1..Len(people'[a].concepts) :
                             LET c == people'[a].concepts[j]
                             IN  /\ c.id # "idle_"
                                 /\ c.subject = inserted[i].describe.subject
                                 /\ c.poignancy = inserted[i].poignancy]_vars


-----------------------------------------------------------------------------
(***************************************************************************)
(* Properties of Agent.reflect.                                            *)
(***************************************************************************)
\* The step is the reflect of the thinking agent.
ReflectStep == chat_turn.step = "reflect" /\ chat_turn'.step = "tick"

\* C21: Agent.reflect has an effect iff status.poignancy >= poignancy_max and
\* memory holds at least one event or thought node; when it runs it adds
\* thought nodes and ends with status.poignancy = 0, when it does not run it
\* leaves status.poignancy and the memory unchanged; so once enough poignant
\* percepts have accumulated, reflection fires in that tick.
C21_ReflectFiresWhenDue ==
    [][ReflectStep =>
        LET ag == people[Thinker]
            after == people'[Thinker]
            holds_node == ag.memory.event \o ag.memory.thought # <<>>
            due == ag.poignancy >= PoignancyMax /\ holds_node
        IN  /\ due => /\ Len(after.memory.thought) > Len(ag.memory.thought)
                      /\ after.poignancy = 0
            /\ ~due => /\ after.poignancy = ag.poignancy
                       /\ after.memory = ag.memory
            /\ (percept_sum >= PoignancyMax /\ holds_node) => due]_vars


-----------------------------------------------------------------------------
(***************************************************************************)
(* Properties of the activity terminals.                                   *)
(***************************************************************************)
\* The ticks at which an entry of the kind was recorded.
RecordedAt(kind) == {records[i].tick : i \in {j \in 1..Len(records) : records[j].kind = kind}}

\* C22: for each activity kind, a qualifying tick less than 60 simulated
\* minutes after the agent's last recorded entry records nothing, and a tick
\* at least 60 simulated minutes after it records a new entry, also when the
\* agent still holds the same terminal action.
C22_HourlyThrottle ==
    [][(ticked'.time # ticked.time /\ ticked'.kind # "none") =>
        LET kind == ticked'.kind
            before == RecordedAt(kind)
            recent == \E t \in before : now - t < HourLimit
        IN  /\ recent => records' = records
            /\ ~recent => /\ Len(records') = Len(records) + 1
                          /\ records'[Len(records')].kind = kind
                          /\ records'[Len(records')].tick = now]_vars


-----------------------------------------------------------------------------
(***************************************************************************)
(* Properties of the decomposition of plans.                               *)
(***************************************************************************)
\* The sub-plans start at the plan's start, each starts where the previous
\* one ends, and the last ends where the plan ends.
TilesThePlan(plan) ==
    LET de == plan.decompose
    IN  /\ de[1].start = plan.start
        /\ \A k \in 1..(Len(de) - 1) : de[k + 1].start = plan_end(de[k])
        /\ SumSeq([k \in 1..Len(de) |-> de[k].duration]) = plan.duration
        /\ plan_end(Last(de)) = plan_end(plan)

\* C23: whenever make_schedule fills plan.decompose for the current plan,
\* from the schedule_decompose parser output or from its failsafe, the
\* sub-plans are contiguous starting at plan.start and their durations sum to
\* exactly plan.duration: a shortfall is padded and there is no overshoot.
C23_DecomposeTilesThePlan ==
    \A i \in 1..Len(daily_schedule) :
        Len(daily_schedule[i].decompose) > 0 => TilesThePlan(daily_schedule[i])


-----------------------------------------------------------------------------
(***************************************************************************)
(* Properties of the sleep branch of think.                                *)
(***************************************************************************)
\* The agent that thinks next, after the move and make_schedule of its think.
SleepThinker ==
    LET name == AgentOrder[think_idx]
        m == move(tiles, agents[name], agent_status[name].coord, agent_status[name].path)
    IN  [tiles |-> m.tiles, agent |-> [m.agent EXCEPT !.scheduled = TRUE]]

\* C24: when the current plan is a sleep plan, the agent is awake and its
\* spatial shortcuts contain no sleep address, think raises no error, does
\* not move the agent, installs no sleeping action, and continues with the
\* normal percept/plan/reflect path.
C24_NoSleepAddressContinues ==
    (pc = "think" /\ ~sleep_known /\ is_awake(SleepThinker.agent)) =>
        /\ \A r \in think_sleep(SleepThinker.tiles, SleepThinker.agent, TRUE, now) :
             /\ r.outcome = "raise" =>
                    \E q \in think_plan(SleepThinker.tiles, SleepThinker.agent, now) :
                        q.outcome = "raise"
             /\ r.agent.action.event.predicate # "sleeping"
        /\ think_sleep(SleepThinker.tiles, SleepThinker.agent, TRUE, now)
               = think_plan(SleepThinker.tiles, SleepThinker.agent, now)


-----------------------------------------------------------------------------
(***************************************************************************)
(* Properties of Maze.get_around.                                          *)
(***************************************************************************)
\* C25: Maze.get_around(coord) returns only coordinates inside the grid (at
\* most 2 for a corner tile, at most 3 for an edge tile), never a coordinate
\* with a negative component or one >= width/height, and it never inspects a
\* tile outside the grid.  Checked for the source tile of find_path, the
\* first tile get_around is called on.
C25_GetAroundInsideGrid ==
    /\ ~get_around_raises(src_coord)
    /\ \A i \in 1..4 :
         LET n == AroundCoords(src_coord)[i]
         IN  n \notin Coords => /\ tile_at(n) = n
                                /\ n \notin SeqToSet(get_around(collision, src_coord))
    /\ SeqToSet(get_around(collision, src_coord)) \subseteq Coords


-----------------------------------------------------------------------------
(***************************************************************************)
(* Properties of compress.generate_movement.                               *)
(***************************************************************************)
\* The number of checkpoint files read when the result is written.
StepsRead == gen.step - 1

\* The keys "0", "1", ..., "S * frames_per_step".
FrameKeys(S) == 0 .. S * FramesPerStep

\* The agent has an entry in the frame.
Appears(name, key) == key \in DOMAIN all_movement /\ all_movement[key][name] # NoCoord

\* C26 as stated: after S checkpoint files the frame keys are exactly
\* 0..S*frames_per_step and every one of them holds an entry for every agent.
C26_AsStated ==
    gen.pc = "done" =>
        /\ DOMAIN all_movement = FrameKeys(StepsRead)
        /\ \A key \in FrameKeys(StepsRead), name \in Agents : Appears(name, key)

\* C26: after S checkpoint files the frame keys are exactly
\* 0..S*frames_per_step; frame 0 holds an entry for every agent, and frame
\* (s-1)*frames_per_step + 1 + i holds an entry for an agent exactly when the
\* agent's path of step s has more than i points, so the first frame of every
\* step holds every agent.
C26_FrameKeysAndEntries ==
    gen.pc = "done" =>
        /\ DOMAIN all_movement = FrameKeys(StepsRead)
        /\ \A name \in Agents : Appears(name, 0)
        /\ \A n \in 1 .. Len(walked), i \in 0 .. FramesPerStep - 1 :
               /\ Appears(walked[n].name, (walked[n].step - 1) * FramesPerStep + 1 + i)
                      <=> i < Len(walked[n].path)
               /\ Appears(walked[n].name, (walked[n].step - 1) * FramesPerStep + 1)

C26_Witness ==
    /\ gen.pc = "done"
    /\ StepsRead = MaxCheckpoints
    /\ \E key \in DOMAIN all_movement, name \in Agents : ~Appears(name, key)
    /\ \E n \in 1 .. Len(walked) : Len(walked[n].path) > 1

\* C27: in the frames in which an agent appears, taken in the order of their
\* keys, two consecutive positions are equal or 4-adjacent, across the
\* boundary of two steps and after a path that was cut off too.
C27_FramesContinuous ==
    \A name \in Agents, k1 \in DOMAIN all_movement, k2 \in DOMAIN all_movement :
        (/\ k1 < k2
         /\ Appears(name, k1)
         /\ Appears(name, k2)
         /\ \A k \in DOMAIN all_movement : k1 < k /\ k < k2 => ~Appears(name, k))
        => \/ all_movement[k1][name] = all_movement[k2][name]
           \/ Adjacent4(all_movement[k1][name], all_movement[k2][name])

C27_Witness ==
    /\ gen.pc = "done"
    /\ \E n \in 1 .. Len(walked), m \in 1 .. Len(walked) :
         /\ walked[n].name = walked[m].name
         /\ walked[n].step < walked[m].step
         /\ Len(walked[n].path) > FramesPerStep
         /\ Len(walked[m].path) > 1


-----------------------------------------------------------------------------
(***************************************************************************)
(* The language model wrapper when the response cannot be parsed.          *)
(***************************************************************************)
\* Every attempt of the call so far ended in the callback's parse failure
\* (parse_llm_output asserts that a pattern matched).
NeverParsed == completion.tries > 0 /\ completion.unparsed = completion.tries

\* C28 as stated: a response that matches no pattern is retried exactly
\* once, so a persistent parse failure makes at most two provider calls.
C28_AsStated == NeverParsed => completion.tries <= 2

\* C28: when every response of a call fails to parse, the call is repeated
\* until all retry attempts of the call are used (10 by default) and then
\* the failsafe is returned: a persistent parse failure makes exactly retry
\* provider calls.
C28_ParseFailureUsesAllRetries ==
    /\ (NeverParsed /\ completion.pc = "loop") => completion.tries < completion.retry
    /\ (NeverParsed /\ completion.pc \in {"after", "idle"}) =>
           completion.tries = completion.retry
    /\ (NeverParsed /\ completion.pc = "idle") => returned = "failsafe"

C28_Witness ==
    /\ completion.pc = "idle"
    /\ completion.retry = LlmRetryDefault
    /\ completion.unparsed = LlmRetryDefault
    /\ returned = "failsafe"


-----------------------------------------------------------------------------
(***************************************************************************)
(* Properties of Action and its serialisation.                             *)
(***************************************************************************)
SameAction(a, b) ==
    /\ a.event = b.event
    /\ a.obj_event = b.obj_event
    /\ a.start = b.start
    /\ a.duration = b.duration
    /\ a.end = b.end

-----------------------------------------------------------------------------
(***************************************************************************)
(* The agents' coordinates at the end of a tick.                           *)
(***************************************************************************)
\* C30: at the end of every tick (all agents have thought) no two distinct
\* agents have the same coordinate, although a tile chosen as a path end by
\* an agent that thought earlier in the tick is not marked as occupied yet.
C30_NoSharedCoordinate ==
    pc \in {"checkpoint", "forward", "done"} =>
        \A a \in Agents, b \in Agents :
            a # b => agent_status[a].coord # agent_status[b].coord


-----------------------------------------------------------------------------
(***************************************************************************)
(* The coordinate the server keeps for an agent.                           *)
(***************************************************************************)
\* C31: when an agent's think has returned, the coord the server keeps for
\* it (passed to its next think and written to the checkpoint) is the end of
\* the path it returned or, without a path, the agent's own coord; so a
\* sleeper that think has put on its bed is not moved back by the server.
C31_ServerCoordIsAgentCoord ==
    [][(pc = "think" /\ thinkers' # thinkers /\ pc' \in {"think", "checkpoint"}) =>
          LET name == AgentOrder[think_idx]
          IN  \/ agent_status'[name].coord = agents'[name].coord
              \/ agent_status'[name].coord # agent_status[name].coord]_vars


-----------------------------------------------------------------------------
(***************************************************************************)
(* The utterance list of a chat.                                           *)
(***************************************************************************)
\* C32: the utterance list of every chat held has at least 2 and at most
\* 2 * chat_iter entries (the loop ends after at most chat_iter rounds),
\* begins with the initiator, alternates strictly between initiator and
\* partner, and holds no utterance that generate_chat_check_repeat vetoed.
C32_ChatLoopUtterances ==
    \A n \in 1 .. Len(conversation) :
        LET e == conversation[n]
        IN  /\ Len(e.chats) >= 2
            /\ Len(e.chats) <= 2 * ChatIter
            /\ \A k \in 1 .. Len(e.chats) :
                   /\ e.chats[k].speaker = IF k % 2 = 1 THEN e.initiator ELSE e.partner
                   /\ e.chats[k].repeat # "yes"

\* A chat that ran all its rounds and one that ended on the initiator's
\* utterance of a later round have been held.
C32_Witness ==
    /\ \E n \in 1 .. Len(conversation) : Len(conversation[n].chats) = 2 * ChatIter
    /\ \E n \in 1 .. Len(conversation) :
           /\ Len(conversation[n].chats) % 2 = 1
           /\ conversation[n].chats[3].repeat = "no"


-----------------------------------------------------------------------------
(***************************************************************************)
(* Chats of one tick.                                                      *)
(***************************************************************************)
\* The agent takes part in the n-th chat of the log.
TakesPart(a, n) == a \in {conversation[n].initiator, conversation[n].partner}

\* C33: within one tick every agent takes part in at most one chat, as
\* initiator or as partner, also when the chat is shorter than 240
\* characters and gets the duration 0.
C33_OneChatPerTick ==
    \A a \in ChatAgents, n \in 1 .. Len(conversation), m \in 1 .. Len(conversation) :
        (n # m /\ TakesPart(a, n) /\ TakesPart(a, m))
            => conversation[n].key # conversation[m].key


-----------------------------------------------------------------------------
(***************************************************************************)
(* What completion returns.                                                *)
(***************************************************************************)
\* C34: completion returns the failsafe only when no attempt left a value:
\* when the callback of the last attempt returned a value that is not None,
\* be it a falsy one (False, 0, "", []), that value is returned, and the
\* call is counted as a success exactly when the provider's value is returned.
C34_FailsafeOnlyWithoutValue ==
    (completion.pc = "idle" /\ completion.tries > 0) =>
        /\ completion.response # None => returned = completion.response
        /\ returned = "failsafe" => completion.response = None


-----------------------------------------------------------------------------
-----------------------------------------------------------------------------
(***************************************************************************)
(* Agent.move between two tiles.                                           *)
(***************************************************************************)
\* The events of the subject on the tile.
SubjectEvents(ts, c, subject) == {i \in 1 .. Len(ts[c]) : ts[c][i].subject = subject}

\* The tiles after the agent has moved from its tile to the tile c.
Moved(ag, c) == move(tiles, ag, c, <<>>).tiles

-----------------------------------------------------------------------------
(***************************************************************************)
(* Agent.find_path: the choice among the target tiles.  The agent stands   *)
(* on src_coord and another agent on dst_coord.                            *)
(***************************************************************************)
\* The walkable tiles inside the border, and those of them around a tile.
Room == {c \in Coords : InSearchRange(c)} \ collision

AroundIn(d) == {c \in Room : Adjacent4(c, d)}

\* The target tiles of an address: a room, or the tiles around the other agent.
TargetSets == {Room, AroundIn(dst_coord)}

\* The tiles with the other agent's event on its tile.
TilesWith(d) == [c \in Coords |-> IF c = d THEN <<Event("a2", "idle", World)>> ELSE <<>>]

Walker == [name |-> "a1", coord |-> src_coord]

\* p is a result of the choice among the tiles of smp.
ChosenFrom(p, smp) ==
    LET last == p.path[Len(p.path)]
        full == find_path(collision, src_coord, last)
    IN  /\ last \in smp
        /\ Cardinality(smp) <= 4
        /\ last # src_coord
        /\ ~ignore_target(TilesWith(dst_coord), Walker, last)
        /\ full.outcome = "return"
        /\ full.path = <<src_coord>> \o p.path
        /\ \A t \in smp :
               LET r == find_path(collision, src_coord, t)
               IN  (r.outcome = "return" /\ r.path # <<>>) => Len(r.path) >= Len(full.path)

DescribesSleeping(describe) == HasEnglishSleepWord(describe) \/ HasChineseSleepWord(describe)

\* C38: decompose(plan) is false for a plan without decomposition that
\* describes sleeping and lasts longer than 60 minutes, false for a plan that
\* has a decomposition, and true for every other plan.
C38_DecomposeUnlessLongSleep ==
    \A i \in 1..Len(daily_schedule) :
        LET plan == daily_schedule[i]
        IN  decompose(plan) =
                (/\ Len(plan.decompose) = 0
                 /\ ~(DescribesSleeping(plan.describe) /\ plan.duration > 60))


\* The number of tiles of a shortest 4-connected walk over non-collision tiles
\* from a tile of S (reached with n tiles) to dst; 0 when there is none.
RECURSIVE WalkLength(_, _, _, _)
WalkLength(coll, S, dst, n) ==
    IF dst \in S THEN n
    ELSE LET S2 == S \cup {c \in Coords \ coll : \E s \in S : Adjacent4(s, c)}
         IN  IF S2 = S THEN 0 ELSE WalkLength(coll, S2, dst, n + 1)

ShortestWalk(coll, src, dst) == WalkLength(coll, {src}, dst, 1)

\* C39: for every src and every dst reachable from src, find_path returns a
\* path from src to dst of minimum length among the 4-connected walks over
\* non-collision tiles, and find_path(p, p) returns [p].
C39_ReturnedPathIsShortest ==
    /\ (Called /\ Reachable(collision, src_coord, dst_coord))
           => /\ path_result.outcome = "return"
              /\ Len(path_result.path) = ShortestWalk(collision, src_coord, dst_coord)
    /\ find_path(collision, src_coord, src_coord)
           = [outcome |-> "return", path |-> <<src_coord>>]

=============================================================================
